---- MODULE Spec2Model ----
(***************************************************************************)
(* Model of one chat turn of the assistant backend (app/main.py,          *)
(* chat_with_conversation and its streaming generator event_stream), of   *)
(* the model gateway events it consumes (app/ai/ai_manager.py) and of the *)
(* message store it writes (app/db/crud.py).                              *)
(*                                                                         *)
(* Text is a sequence of one-character strings.  The Python lists         *)
(* accumulated, thinking_content, thinking_buffer and pending_output only *)
(* ever hold non-empty strings and are only read through "".join(...) and *)
(* through their truth value, so each is kept as its joined text.         *)
(***************************************************************************)
EXTENDS Integers, Sequences, FiniteSets, TLC

(***************************************************************************)
(* Text helpers (Python str operations used by the detector).             *)
(***************************************************************************)
UpperChars ==
  <<"A", "B", "C", "D", "E", "F", "G", "H", "I", "J", "K", "L", "M", "N", "O", "P", "Q", "R", "S", "T", "U", "V", "W", "X", "Y", "Z">>

LowerChars ==
  <<"a", "b", "c", "d", "e", "f", "g", "h", "i", "j", "k", "l", "m", "n", "o", "p", "q", "r", "s", "t", "u", "v", "w", "x", "y", "z">>

\* str.lower() on one character; re.IGNORECASE compares through it
LowerChar(c) ==
  IF \E i \in 1..Len(UpperChars) : UpperChars[i] = c
  THEN LowerChars[CHOOSE i \in 1..Len(UpperChars) : UpperChars[i] = c]
  ELSE c

Lower(s) ==
  [i \in 1..Len(s) |-> LowerChar(s[i])]

\* the regex class \s
Ws ==
  {" ", "\n", "\t", "\r"}

\* s[a:b] with 1-based inclusive bounds; empty when a > b
Slice(s, a, b) ==
  IF a > b THEN <<>> ELSE SubSeq(s, a, b)

\* s[a:] (1-based)
From(s, a) ==
  Slice(s, a, Len(s))

\* str.startswith
StartsWith(s, p) ==
  /\ Len(p) <= Len(s)
  /\ \A i \in 1..Len(p) : s[i] = p[i]

\* str.rfind(c) as a 1-based position, 0 when absent
RFind(s, c) ==
  IF \E i \in 1..Len(s) : s[i] = c
  THEN CHOOSE i \in 1..Len(s) : s[i] = c /\ \A j \in (i+1)..Len(s) : s[j] # c
  ELSE 0

\* str.replace(c, "") for every c in the set drop
RECURSIVE Remove(_, _)
Remove(s, drop) ==
  IF s = <<>> THEN <<>>
  ELSE IF Head(s) \in drop THEN Remove(Tail(s), drop)
  ELSE <<Head(s)>> \o Remove(Tail(s), drop)

\* str.strip()
Strip(s) ==
  LET keep == {i \in 1..Len(s) : s[i] \notin Ws}
  IN IF keep = {} THEN <<>>
     ELSE Slice(s, CHOOSE i \in keep : \A j \in keep : i <= j,
                   CHOOSE i \in keep : \A j \in keep : i >= j)

\* str.rstrip('>')
RStripGt(s) ==
  LET keep == {i \in 1..Len(s) : s[i] # ">"}
  IN IF keep = {} THEN <<>>
     ELSE Slice(s, 1, CHOOSE i \in keep : \A j \in keep : i >= j)

SetMin(S) ==
  CHOOSE x \in S : \A y \in S : x <= y

(***************************************************************************)
(* Regular expressions of the detector, as position-set matchers: each    *)
(* piece maps the set of positions where a match may continue to the set  *)
(* of positions after the piece.                                          *)
(***************************************************************************)
\* the position after the longest run, from position i on, of characters
\* that are in the class C (inC) or outside it (~ inC)
RECURSIVE RunEnd(_, _, _, _)
RunEnd(s, i, C, inC) ==
  IF i > Len(s) \/ ((s[i] \in C) # inC) THEN i
  ELSE RunEnd(s, i + 1, C, inC)

\* C* for a character class C
ReStar(s, P, C) ==
  UNION {i..RunEnd(s, i, C, TRUE) : i \in P}

\* C+ for a character class C
RePlus(s, P, C) ==
  UNION {(i + 1)..RunEnd(s, i, C, TRUE) : i \in P}

\* [^...]* : any run of characters outside the class C
ReStarNot(s, P, C) ==
  UNION {i..RunEnd(s, i, C, FALSE) : i \in P}

\* a literal word, compared case-insensitively (re.IGNORECASE)
ReLit(s, P, w) ==
  {i + Len(w) : i \in {p \in P : /\ p + Len(w) - 1 <= Len(s)
                                  /\ \A k \in 1..Len(w) : LowerChar(s[p + k - 1]) = w[k]}}

\* [\s\|]*(?:DSML\s*\|)?\s*(?:antml:)?  -- the prefix every tag pattern allows
ReTagPrefix(s, P) ==
  LET p1 == ReStar(s, P, Ws \cup {"|"})
      p2 == p1 \cup ReLit(s, ReStar(s, ReLit(s, p1, <<"d", "s", "m", "l">>), Ws), <<"|">>)
      p3 == ReStar(s, p2, Ws)
  IN p3 \cup ReLit(s, p3, <<"a", "n", "t", "m", "l", ":">>)

\* <[\s\|]*(?:DSML\s*\|)?\s*(?:antml:)?function_calls\s*>  matched at position i
FcOpenEnds(s, i) ==
  LET p0 == ReLit(s, {i}, <<"<">>)
      p1 == ReLit(s, ReTagPrefix(s, p0), <<"f", "u", "n", "c", "t", "i", "o", "n", "_", "c", "a", "l", "l", "s">>)
  IN ReLit(s, ReStar(s, p1, Ws), <<">">>)

\* </[\s\|]*(?:DSML\s*\|)?\s*(?:antml:)?<word>\s*>  matched at position i
CloseTagEnds(s, i, word) ==
  LET p0 == ReLit(s, {i}, <<"<", "/">>)
      p1 == ReLit(s, ReTagPrefix(s, p0), word)
  IN ReLit(s, ReStar(s, p1, Ws), <<">">>)

\* re.search(open pattern, s).start(), 0 for no match
FcOpenStart(s) ==
  LET hits == {i \in 1..Len(s) : FcOpenEnds(s, i) # {}}
  IN IF hits = {} THEN 0 ELSE SetMin(hits)

\* re.search(close pattern, s) is not None
FcCloseFound(s) ==
  \E i \in 1..Len(s) : CloseTagEnds(s, i, <<"f", "u", "n", "c", "t", "i", "o", "n", "_", "c", "a", "l", "l", "s">>) # {}


Quotes ==
  {"\"", "'"}

\* positions just after  <PREFIX word\s+name\s*=\s*["']  matched at position i
TagHeadEnds(s, i, word) ==
  LET p0 == ReLit(s, {i}, <<"<">>)
      p1 == ReLit(s, ReTagPrefix(s, p0), word)
      p2 == ReLit(s, RePlus(s, p1, Ws), <<"n", "a", "m", "e">>)
      p3 == ReLit(s, ReStar(s, p2, Ws), <<"=">>)
      p4 == ReStar(s, p3, Ws)
  IN {q + 1 : q \in {r \in p4 : r <= Len(s) /\ s[r] \in Quotes}}

\* One match of invoke_pattern (anyAttrs = FALSE: ["']\s*>) or of
\* param_pattern (anyAttrs = TRUE: ["'][^>]*>) starting at position i:
\* the set of [name, body, stop] it can produce (stop = position after it).
\* ([^"']+) ends at the first quote, (.*?) at the first closing tag.
TagMatchesAt(s, i, word, anyAttrs) ==
  LET heads == TagHeadEnds(s, i, word)
      NameEnd(a) == {q \in {RunEnd(s, a, Quotes, FALSE)} : q > a /\ q <= Len(s)}
      BodyStart(q) == IF anyAttrs THEN ReLit(s, ReStarNot(s, {q + 1}, {">"}), <<">">>)
                      ELSE ReLit(s, ReStar(s, {q + 1}, Ws), <<">">>)
      Closers(b) == {j \in b..Len(s) : CloseTagEnds(s, j, word) # {}}
      Match(a, q, b) == LET c == SetMin(Closers(b))
                        IN [name |-> Slice(s, a, q - 1),
                            body |-> Slice(s, b, c - 1),
                            stop |-> SetMin(CloseTagEnds(s, c, word))]
  IN UNION {UNION {{Match(a, q, b) : b \in {x \in BodyStart(q) : Closers(x) # {}}} :
                     q \in NameEnd(a)} : a \in heads}

\* re.finditer(pattern, s, DOTALL | IGNORECASE): the non-overlapping
\* matches from position pos on, leftmost first
RECURSIVE FindTags(_, _, _, _)
FindTags(s, pos, word, anyAttrs) ==
  LET Rest(m) == <<m>> \o FindTags(s, m.stop, word, anyAttrs)
      Pick(ms) == Rest(CHOOSE x \in ms : \A y \in ms : x.stop <= y.stop)
      Go(starts) == IF starts = {} THEN <<>>
                    ELSE Pick(TagMatchesAt(s, SetMin(starts), word, anyAttrs))
  IN Go({i \in pos..Len(s) : TagMatchesAt(s, i, word, anyAttrs) # {}})

Digits ==
  <<"0", "1", "2", "3", "4", "5", "6", "7", "8", "9">>

DigitVal(c) ==
  (CHOOSE i \in 1..10 : Digits[i] = c) - 1

IsDigits(v) ==
  /\ v # <<>>
  /\ \A i \in 1..Len(v) : \E d \in 1..10 : Digits[d] = v[i]

RECURSIVE DigitsValue(_)
DigitsValue(v) ==
  IF v = <<>> THEN 0
  ELSE 10 * DigitsValue(Slice(v, 1, Len(v) - 1)) + DigitVal(v[Len(v)])

\* try: params[name] = int(value)  except ValueError: params[name] = value
\* (a value is [int |-> n] or [str |-> text])
CoerceParam(v) ==
  IF IsDigits(v) THEN [int |-> DigitsValue(v)]
  ELSE IF Len(v) > 1 /\ v[1] \in {"-", "+"} /\ IsDigits(Tail(v))
       THEN [int |-> IF v[1] = "-" THEN 0 - DigitsValue(Tail(v)) ELSE DigitsValue(Tail(v))]
  ELSE [str |-> v]

\* the params dict of one invocation: later parameters of the same name win
RECURSIVE ParamsDict(_)
ParamsDict(ms) ==
  IF ms = <<>> THEN <<>>
  ELSE LET last == ms[Len(ms)]
           rest == ParamsDict(Slice(ms, 1, Len(ms) - 1))
           keep == SelectSeq(rest, LAMBDA e : e.name # last.name)
       IN keep \o <<[name |-> last.name, value |-> CoerceParam(Strip(last.body))]>>

\* the (tool_name, params) records parsed out of xml_tool_buffer
ParseInvokes(xml_tool_buffer) ==
  LET Invocations(ms) ==
        [k \in 1..Len(ms) |->
           [name |-> ms[k].name,
            params |-> ParamsDict(FindTags(ms[k].body, 1,
                                           <<"p", "a", "r", "a", "m", "e", "t", "e", "r">>, TRUE))]]
  IN Invocations(FindTags(xml_tool_buffer, 1, <<"i", "n", "v", "o", "k", "e">>, FALSE))

possible_starts ==
  <<<<"<", "f", "u", "n", "c", "t", "i", "o", "n", "_", "c", "a", "l", "l", "s", ">">>,
    <<"<", "|", "d", "s", "m", "l", "|", "f", "u", "n", "c", "t", "i", "o", "n", "_", "c", "a", "l", "l", "s", ">">>,
    <<"<", "|">>,
    <<"<", "f">>,
    <<"<", "f", "u">>,
    <<"<", "f", "u", "n">>,
    <<"<", "f", "u", "n", "c">>,
    <<"<", "f", "u", "n", "c", "t">>,
    <<"<", "f", "u", "n", "c", "t", "i">>,
    <<"<", "f", "u", "n", "c", "t", "i", "o">>,
    <<"<", "f", "u", "n", "c", "t", "i", "o", "n">>,
    <<"<", "f", "u", "n", "c", "t", "i", "o", "n", "_">>,
    <<"<", "f", "u", "n", "c", "t", "i", "o", "n", "_", "c">>,
    <<"<", "f", "u", "n", "c", "t", "i", "o", "n", "_", "c", "a">>,
    <<"<", "f", "u", "n", "c", "t", "i", "o", "n", "_", "c", "a", "l">>,
    <<"<", "f", "u", "n", "c", "t", "i", "o", "n", "_", "c", "a", "l", "l">>,
    <<"<", "f", "u", "n", "c", "t", "i", "o", "n", "_", "c", "a", "l", "l", "s">>,
    <<"<", "d", "s">>,
    <<"<", "d", "s", "m">>,
    <<"<", "d", "s", "m", "l">>>>

target_tags ==
  <<<<"<", "f", "u", "n", "c", "t", "i", "o", "n", "_", "c", "a", "l", "l", "s", ">">>,
    <<"<", "f", "u", "n", "c", "t", "i", "o", "n", "_", "c", "a", "l", "l", "s", ">">>,
    <<"<", "|", "d", "s", "m", "l", "|", "f", "u", "n", "c", "t", "i", "o", "n", "_", "c", "a", "l", "l", "s", ">">>>>

\* text[last_lt_pos:].lower().replace(' ', '').replace('\n', '')
Remaining(text) ==
  Remove(Lower(From(text, RFind(text, "<"))), {" ", "\n"})

\* thinking channel: may the tail of the buffered thinking still become an
\* opening tag?
potential_xml_in_thinking(thinking_so_far) ==
  /\ RFind(thinking_so_far, "<") # 0
  /\ \E k \in 1..Len(possible_starts) :
        \/ StartsWith(possible_starts[k], Remaining(thinking_so_far))
        \/ StartsWith(Remaining(thinking_so_far), RStripGt(possible_starts[k]))

\* the content channel without the look-ahead: a pending "<" is never held
potential_xml_start_never(pending_content) ==
  FALSE

\* content channel: is the tail of the pending text a proper prefix of a
\* target tag (and not longer than 50 characters)?
potential_xml_start(pending_content) ==
  /\ RFind(pending_content, "<") # 0
  /\ \E k \in 1..Len(target_tags) :
        /\ StartsWith(Lower(target_tags[k]), Remaining(pending_content))
        /\ Len(Remaining(pending_content)) < Len(target_tags[k])
  /\ ~ (Len(Remaining(pending_content)) > 50)


(***************************************************************************)
(* State.                                                                  *)
(***************************************************************************)
VARIABLES
  store,      \* the messages table: records written by crud.create_message
  http,       \* status of the HTTP response of the chat request, 0 = none yet
  pc,         \* where the request handler / the generator event_stream stands
  turn,       \* the parameters of the chat request being served
  g,          \* the locals of chat_with_conversation.event_stream
  upstream,   \* events the gateway generator of the open stream will still yield
  executed,   \* the tool invocations _execute_tool has run, in order
  calls,      \* model calls issued for the turn: [native |-> n, stream |-> m]
  reported,   \* prompt+completion tokens the upstream reported over those calls
  client,     \* "reading", or "gone" once the client abandoned the stream
  partial     \* outcome of the client's later POST .../messages/partial, "none" before

VARIABLES
  stream_resp, \* one upstream streaming response as AIManager.chat._iter reads it
  mcp_client,  \* the MCPClient: servers with their tools, _tool_name_map, and the dispatches made
  ai_manager,  \* the process-wide AIManager: its _provider, and the thread that set it last
  provider_db, \* the providers table and settings.AI_API_BASE
  workers,     \* the request threads that run chat turns against ai_manager
  mcp_io,      \* one MCP server's process, lock and pipes, and the invocations that use them
  gateway_call, \* one call of the gateway: its upstream response, its httpx client, its generator
  convs \* the conversations table with message counts, and the last request served on it

\* the variables of the chat turn, and the variables of the other components
chat ==
  <<store, http, pc, turn, g, upstream, executed, calls, reported, client, partial>>

aux ==
  <<stream_resp, mcp_client, ai_manager, provider_db, workers, mcp_io, gateway_call, convs>>

vars ==
  <<chat, aux>>

\* no upstream response is being read
RespIdle ==
  stream_resp = [lines |-> <<>>, pos |-> 0, yielded |-> <<>>, usage_info |-> <<>>, closed |-> FALSE]

\* dict.get(key, default)
Get(d, key, default) ==
  IF key \in DOMAIN d THEN d[key] ELSE default

\* yield of one SSE frame to the client
Emit(loc, ev, data) ==
  [loc EXCEPT !.frames = Append(@, [ev |-> ev, data |-> data])]

\* add_event(event_type, content)
add_event(loc, event_type, content) ==
  [loc EXCEPT !.message_events = Append(@, [type |-> event_type, content |-> content])]

\* the recurring block
\*   if enable_thinking and not is_thinking_done: is_thinking_done = True;
\*     yield thinking_end(full_thinking); if full_thinking: add_event(...)
thinking_end_once(loc, enable_thinking) ==
  IF enable_thinking /\ ~ loc.is_thinking_done
  THEN LET l1 == Emit([loc EXCEPT !.is_thinking_done = TRUE], "thinking_end", loc.thinking_content)
       IN IF loc.thinking_content # <<>> THEN add_event(l1, "thinking", loc.thinking_content) ELSE l1
  ELSE loc

\* the closing tag decides whether the collected block is complete
close_check(loc) ==
  IF FcCloseFound(loc.xml_tool_buffer)
  THEN [loc EXCEPT !.in_xml_tool_call = FALSE, !.has_xml_tool_call = TRUE]
  ELSE loc

\* one gateway event of type "thinking" in a streaming round of tool mode
on_thinking(loc, thinking) ==
  LET l1 == [loc EXCEPT !.thinking_content = @ \o thinking, !.thinking_buffer = @ \o thinking]
      thinking_so_far == l1.thinking_buffer
      fc_start == FcOpenStart(thinking_so_far)
      thinking_before_fc == Slice(thinking_so_far, 1, fc_start - 1)
      last_lt_pos == RFind(thinking_so_far, "<")
      safe_content == Slice(thinking_so_far, 1, last_lt_pos - 1)
  IN IF fc_start # 0
     THEN LET l2 == IF Strip(thinking_before_fc) # <<>>
                    THEN add_event(Emit(l1, "thinking_end", thinking_before_fc), "thinking", thinking_before_fc)
                    ELSE l1
          IN close_check([l2 EXCEPT !.is_thinking_done = TRUE,
                                    !.in_xml_tool_call = TRUE,
                                    !.xml_tool_buffer = From(thinking_so_far, fc_start),
                                    !.thinking_buffer = <<>>])
     ELSE IF l1.in_xml_tool_call
     THEN close_check([l1 EXCEPT !.xml_tool_buffer = @ \o thinking])
     ELSE IF potential_xml_in_thinking(thinking_so_far)
     THEN l1
     ELSE IF last_lt_pos # 0
     THEN [(IF Strip(safe_content) # <<>> THEN Emit(l1, "thinking", safe_content) ELSE l1)
             EXCEPT !.thinking_buffer = From(thinking_so_far, last_lt_pos)]
     ELSE [Emit(l1, "thinking", thinking_so_far) EXCEPT !.thinking_buffer = <<>>]

\* visible answer text sent and logged but not added to accumulated
emit_text_unrecorded(loc, t) ==
  add_event(Emit(loc, "text", t), "text", t)
\* visible answer text: accumulated.append(t); yield data frame; add_event("text", t)
emit_text(loc, t) ==
  add_event(Emit([loc EXCEPT !.accumulated = @ \o t], "text", t), "text", t)

\* one gateway event of type "content" in a streaming round of tool mode
on_content(loc, delta, enable_thinking) ==
  LET l1 == [loc EXCEPT !.has_real_content = TRUE]
      pending_content == l1.pending_output \o delta
      fc_start == FcOpenStart(pending_content)
      before_fc == Slice(pending_content, 1, fc_start - 1)
  IN IF l1.in_xml_tool_call
     THEN close_check([l1 EXCEPT !.xml_tool_buffer = @ \o delta])
     ELSE IF fc_start # 0
     THEN LET l2 == IF Strip(before_fc) # <<>>
                    THEN emit_text(thinking_end_once(l1, enable_thinking), before_fc)
                    ELSE l1
          IN close_check([l2 EXCEPT !.in_xml_tool_call = TRUE,
                                    !.xml_tool_buffer = From(pending_content, fc_start),
                                    !.pending_output = <<>>])
     ELSE IF potential_xml_start(pending_content)
     THEN [l1 EXCEPT !.pending_output = pending_content]
     ELSE [emit_text(thinking_end_once(l1, enable_thinking), pending_content)
             EXCEPT !.pending_output = <<>>]

\* one gateway event of type "usage" in a streaming round of tool mode
on_usage(loc, usage) ==
  [loc EXCEPT !.total_input_tokens = @ + Get(usage, "prompt_tokens", 0),
              !.total_output_tokens = @ + Get(usage, "completion_tokens", 0)]

\* after the stream of a round ended: a complete block left in the thinking
\* buffer, an incomplete collected block, and the pending text
end_of_stream(loc, enable_thinking) ==
  LET Flush(l2) ==
        IF l2.pending_output # <<>> /\ ~ l2.in_xml_tool_call
        THEN emit_text(thinking_end_once(l2, enable_thinking), l2.pending_output)
        ELSE l2
      Collected(l1) ==
        Flush(IF l1.in_xml_tool_call
              THEN IF FcCloseFound(l1.xml_tool_buffer)
                   THEN [l1 EXCEPT !.in_xml_tool_call = FALSE, !.has_xml_tool_call = TRUE]
                   ELSE [emit_text(thinking_end_once(l1, enable_thinking), l1.xml_tool_buffer)
                           EXCEPT !.in_xml_tool_call = FALSE]
              ELSE l1)
      Before(thinking_before_fc, l00) ==
        IF Strip(thinking_before_fc) # <<>> /\ ~ l00.is_thinking_done
        THEN [add_event(Emit(l00, "thinking_end", thinking_before_fc),
                        "thinking", thinking_before_fc)
                EXCEPT !.is_thinking_done = TRUE]
        ELSE l00
      Buffered(thinking_so_far, fc_start) ==
        IF /\ thinking_so_far # <<>>
           /\ ~ loc.in_xml_tool_call
           /\ ~ loc.has_xml_tool_call
           /\ fc_start # 0
        THEN IF FcCloseFound(From(thinking_so_far, fc_start))
             THEN Before(Slice(thinking_so_far, 1, fc_start - 1),
                         [loc EXCEPT !.xml_tool_buffer = From(thinking_so_far, fc_start),
                                     !.has_xml_tool_call = TRUE])
             ELSE [loc EXCEPT !.xml_tool_buffer = From(thinking_so_far, fc_start)]
        ELSE loc
  IN Collected(Buffered(loc.thinking_buffer, FcOpenStart(loc.thinking_buffer)))


(***************************************************************************)
(* Tools.                                                                  *)
(***************************************************************************)
\* what a tool backend does with one invocation (input of the model)
ToolOutcomes ==
  {"ok", "fails"}

\* _execute_tool: the whole body is wrapped in try/except Exception and
\* returns a text in both cases; it never raises
_execute_tool(function_name, function_args, outcome) ==
  [raised |-> FALSE,
   text |-> IF outcome = "ok" THEN <<"r", "e", "s">> ELSE <<"e", "r", "r">>]

\* the XML tool round: every parsed invocation is executed in order, then
\* the results are appended to current_messages as one system message and
\* the detector state is reset.  x = [loc, ran]
RECURSIVE run_xml_tools(_, _, _, _)
run_xml_tools(x, invokes, outcomes, k) ==
  IF k > Len(invokes) THEN x
  ELSE LET inv == invokes[k]
           res == _execute_tool(inv.name, inv.params, outcomes[k])
           l1 == Emit(Emit(x.loc, "tool_start", inv.name), "tool_progress", <<"start">>)
           tool_info == [name |-> inv.name, args |-> inv.params,
                         status |-> IF res.raised THEN "error" ELSE "success"]
           l2 == Emit(l1, "tool_progress", IF res.raised THEN <<"error">> ELSE <<"done">>)
           l3 == add_event([l2 EXCEPT !.tool_calls_info = Append(@, tool_info),
                                      !.xml_tool_results = Append(@, res.text)],
                           "tool_call", tool_info)
       IN run_xml_tools([loc |-> l3, ran |-> Append(x.ran, [name |-> inv.name, params |-> inv.params])],
                        invokes, outcomes, k + 1)

\* lines after the stream of a round: execute a detected block and loop, or
\* leave the loop
xml_round_reset(loc) ==
  [Emit(loc, "tool_end", <<"done">>)
     EXCEPT !.tool_calls_info = <<>>,
            !.current_messages = Append(@, [role |-> "system", tool_calls |-> <<>>,
                                            tool_call_id |-> "", content |-> loc.xml_tool_results]),
            !.xml_tool_results = <<>>,
            !.is_thinking_done = FALSE,
            !.thinking_content = <<>>,
            !.xml_tool_buffer = <<>>,
            !.in_xml_tool_call = FALSE,
            !.has_xml_tool_call = FALSE]

\* after the streaming loop: the late thinking_end, the promotion of a
\* thinking-only answer, token_info, and the meta and [DONE] frames
finalize_tools(loc, enable_thinking) ==
  LET Done(l2, token_info) ==
        Emit(Emit([l2 EXCEPT !.token_info = token_info], "meta", token_info), "done", <<>>)
      Meta(l2) ==
        Done(l2, [model |-> "default",
                  input_tokens |-> l2.total_input_tokens,
                  output_tokens |-> l2.total_output_tokens,
                  total_tokens |-> l2.total_input_tokens + l2.total_output_tokens])
      Promote(l1, full) ==
        Meta(IF l1.accumulated = <<>> /\ full # <<>>
             THEN IF FcOpenStart(full) # 0 /\ FcCloseFound(full)
                  THEN [l1 EXCEPT !.has_xml_tool_call = TRUE,
                                  !.xml_tool_buffer = From(full, FcOpenStart(full))]
                  ELSE [add_event([Emit(l1, "text", full) EXCEPT !.accumulated = @ \o full],
                                  "text", full)
                          EXCEPT !.thinking_content = <<>>]
             ELSE l1)
      LateEnd(l0) ==
        IF loc.thinking_content # <<>>
        THEN add_event(l0, "thinking", loc.thinking_content) ELSE l0
  IN Promote(IF enable_thinking /\ ~ loc.is_thinking_done
             THEN LateEnd(Emit(loc, "thinking_end", loc.thinking_content))
             ELSE loc,
             loc.thinking_content)

\* except Exception as e: yield "[错误] ..." ; yield "[DONE]"
on_exception(loc) ==
  Emit(Emit(loc, "error", <<"!">>), "done", <<>>)


(***************************************************************************)
(* The message store (app/db/crud.py) and provider resolution.            *)
(***************************************************************************)
\* the keyword parameters create_message declares besides the positional
\* db, conversation_id, role, content: only token_info
create_message_keywords ==
  {"token_info"}

\* crud.create_message called with the keyword arguments kwargs: Python
\* raises TypeError for a keyword the signature does not declare; otherwise
\* a row is added (token fields only for an assistant row with token_info)
create_message(st, conversation_id, role, content, token_info, kwargs) ==
  IF ~ (kwargs \subseteq create_message_keywords)
  THEN [raised |-> TRUE, store |-> st]
  ELSE [raised |-> FALSE,
        store |-> [st EXCEPT !.messages =
                     Append(@, [conversation_id |-> conversation_id,
                                role |-> role,
                                content |-> content,
                                token_info |-> IF role = "assistant" /\ token_info # <<>>
                                               THEN [k \in {"model", "input_tokens", "output_tokens", "total_tokens"}
                                                       |-> Get(token_info, k, 0)]
                                               ELSE <<>>])]]

\* _configure_ai_provider_for_conversation; 0 stands for None.
\* all_providers is crud.list_providers(db), settings_api_base says
\* whether settings.AI_API_BASE is set.
_configure_ai_provider_for_conversation(override_provider_id, conversation_provider_id, all_providers, settings_api_base) ==
  LET get_provider(id) == IF \E i \in 1..Len(all_providers) : all_providers[i] = id THEN id ELSE 0
      p1 == IF override_provider_id # 0 THEN get_provider(override_provider_id)
            ELSE IF conversation_provider_id # 0 THEN get_provider(conversation_provider_id)
            ELSE 0
      p2 == IF p1 = 0 /\ all_providers # <<>> THEN all_providers[1] ELSE p1
  IN IF p2 # 0 THEN [status |-> "ok", source |-> "provider", id |-> p2]
     ELSE IF ~ settings_api_base THEN [status |-> "HTTP400", source |-> "none", id |-> 0]
     ELSE [status |-> "ok", source |-> "env", id |-> 0]

\* the prologue with the provider resolved before the user message is written
chat_prologue_provider_first(st, conversation_id, user_text, provider) ==
  IF conversation_id \notin st.conversations
  THEN [store |-> st, http |-> 404]
  ELSE IF provider.status = "HTTP400"
  THEN [store |-> st, http |-> 400]
  ELSE [store |-> create_message(st, conversation_id, "user", user_text, <<>>, {}).store, http |-> 0]

\* chat_with_conversation up to the provider: 404 for an unknown
\* conversation, then the user message is written, then the provider is
\* resolved (which may answer 400)
chat_prologue(st, conversation_id, user_text, provider) ==
  IF conversation_id \notin st.conversations
  THEN [store |-> st, http |-> 404]
  ELSE LET w == create_message(st, conversation_id, "user", user_text, <<>>, {})
       IN IF provider.status = "HTTP400"
          THEN [store |-> w.store, http |-> 400]
          ELSE [store |-> w.store, http |-> 0]

\* crud.get_context_messages: the stored history of the conversation that
\* forms complete question/answer pairs, oldest first (the user message of
\* the running turn has no answer yet and is appended by the caller)
get_context_messages(st, conversation_id) ==
  LET mine == SelectSeq(st.messages, LAMBDA m : m.conversation_id = conversation_id)
      whole == IF mine # <<>> /\ mine[Len(mine)].role = "user"
               THEN Slice(mine, 1, Len(mine) - 1) ELSE mine
  IN [k \in 1..Len(whole) |-> [role |-> whole[k].role, content |-> whole[k].content]]

(***************************************************************************)
(* The upstream model: what it answers to the calls of one turn.          *)
(***************************************************************************)
Markup ==
  <<"<", "f", "u", "n", "c", "t", "i", "o", "n", "_", "c", "a", "l", "l", "s", ">", "<", "i", "n", "v", "o", "k", "e", " ", "n", "a", "m", "e", "=", "\"", "w", "e", "b", "_", "s", "e", "a", "r", "c", "h", "\"", ">", "<", "p", "a", "r", "a", "m", "e", "t", "e", "r", " ", "n", "a", "m", "e", "=", "\"", "q", "u", "e", "r", "y", "\"", ">", "c", "a", "t", "s", "<", "/", "p", "a", "r", "a", "m", "e", "t", "e", "r", ">", "<", "/", "i", "n", "v", "o", "k", "e", ">", "<", "/", "f", "u", "n", "c", "t", "i", "o", "n", "_", "c", "a", "l", "l", "s", ">">>

ProseHeart ==
  <<"<", "3", " ", "t", "h", "i", "s", " ", "f", "e", "a", "t", "u", "r", "e">>

ProseShort ==
  <<"a", " ", "<", "3">>

AnswerText ==
  <<"o", "k">>

\* text that ends inside the name of an opening tag
PartialTag ==
  <<"o", "k", "<", "f", "u", "n">>

\* an opened function_calls block whose closing tag never comes
OpenBlock ==
  Slice(Markup, 1, 16) \o <<"x">>

ThinkText ==
  <<"h", "m">>

\* usage numbers the upstream reports: per non-streaming response and per stream
NativeUsage ==
  [prompt_tokens |-> 3, completion_tokens |-> 2, total_tokens |-> 5]

StreamUsage ==
  [prompt_tokens |-> 4, completion_tokens |-> 1, total_tokens |-> 5]

\* AIManager.chat._iter: the usage of an upstream frame becomes the usage
\* event yielded at [DONE], when usage.prompt_tokens is non-zero
gateway_usage_event(usage) ==
  IF Get(usage, "prompt_tokens", 0) # 0
  THEN <<[type |-> "usage",
          usage |-> [model |-> "default",
                     input_tokens |-> Get(usage, "prompt_tokens", 0),
                     output_tokens |-> Get(usage, "completion_tokens", 0),
                     total_tokens |-> Get(usage, "total_tokens", 0)]]>>
  ELSE <<>>

Txt(type, content) ==
  [type |-> type, content |-> content]

\* the gateway events of one stream, by script name; "fail" stands for the
\* upstream connection breaking (an exception out of the gateway generator)
Script(name) ==
  CASE name = "answer" -> <<Txt("content", AnswerText)>> \o gateway_usage_event(StreamUsage)
    [] name = "answer_nousage" -> <<Txt("content", AnswerText)>>
    [] name = "markup_c" -> <<Txt("content", Markup)>> \o gateway_usage_event(StreamUsage)
    [] name = "markup_t" -> <<Txt("thinking", Markup)>>
    [] name = "prose_c" -> <<Txt("content", ProseHeart)>>
    [] name = "prose_t" -> <<Txt("thinking", ProseHeart)>>
    [] name = "prose_t_answer" -> <<Txt("thinking", ProseHeart), Txt("content", AnswerText)>>
    [] name = "short_c" -> <<Txt("content", ProseShort)>>
    [] name = "short_t_answer" -> <<Txt("thinking", ProseShort), Txt("content", AnswerText)>>
    [] name = "partial_c" -> <<Txt("content", PartialTag)>>
    [] name = "partial_t_answer" -> <<Txt("thinking", PartialTag), Txt("content", AnswerText)>>
    [] name = "open_c" -> <<Txt("content", OpenBlock)>>
    [] name = "ws_markup_text_c" -> <<Txt("content", <<" ">> \o Markup \o AnswerText)>>
    [] name = "open_t" -> <<Txt("thinking", OpenBlock)>>
    [] name = "think_answer" -> <<Txt("thinking", ThinkText), Txt("content", AnswerText)>>
    [] name = "think_only" -> <<Txt("thinking", ThinkText)>>
    [] name = "fail_mid" -> <<Txt("content", AnswerText), [type |-> "fail"]>>
    [] name = "fail_open" -> <<[type |-> "fail"]>>

ToolCall(id, json_ok) ==
  [id |-> id, name |-> <<"w", "e", "b", "_", "s", "e", "a", "r", "c", "h">>,
   json_ok |-> json_ok,
   args |-> <<[name |-> <<"q", "u", "e", "r", "y">>, value |-> [str |-> <<"c", "a", "t", "s">>]]>>]

\* the non-streaming responses, by name: HTTP success or not, the
\* message's tool_calls (json_ok: the arguments string parses), the content
\* and the usage dict
Response(name) ==
  CASE name = "tool" -> [ok |-> TRUE, tool_calls |-> <<ToolCall("c1", TRUE)>>, content |-> <<>>, usage |-> NativeUsage]
    [] name = "tool_nousage" -> [ok |-> TRUE, tool_calls |-> <<ToolCall("c1", TRUE)>>, content |-> <<>>, usage |-> <<>>]
    [] name = "two_tools" -> [ok |-> TRUE, tool_calls |-> <<ToolCall("c1", TRUE), ToolCall("c2", TRUE)>>, content |-> <<>>, usage |-> NativeUsage]
    [] name = "bad_args" -> [ok |-> TRUE, tool_calls |-> <<ToolCall("c1", FALSE)>>, content |-> <<>>, usage |-> NativeUsage]
    [] name = "none" -> [ok |-> TRUE, tool_calls |-> <<>>, content |-> AnswerText, usage |-> NativeUsage]
    [] name = "none_nousage" -> [ok |-> TRUE, tool_calls |-> <<>>, content |-> AnswerText, usage |-> <<>>]
    [] name = "http_error" -> [ok |-> FALSE, tool_calls |-> <<>>, content |-> <<>>, usage |-> <<>>]

\* the k-th answer of a model that follows the list names and then keeps
\* repeating its last entry
Nth(names, k) ==
  names[IF k <= Len(names) THEN k ELSE Len(names)]

\* behaviours of the upstream model over one turn: its non-streaming
\* answers and its streams
Plans ==
  {[native |-> n, rounds |-> <<"answer">>] :
      n \in {<<"none">>, <<"tool">>, <<"tool", "none">>, <<"two_tools", "none">>,
             <<"bad_args">>, <<"tool", "bad_args">>, <<"http_error">>, <<"tool", "http_error">>}}
  \cup
  {[native |-> <<"none">>, rounds |-> r] :
      r \in {<<"markup_c">>, <<"markup_t">>, <<"markup_c", "answer">>, <<"markup_t", "answer">>,
             <<"markup_t", "think_only">>,
             <<"prose_c">>, <<"prose_t">>, <<"prose_t_answer">>, <<"short_c">>, <<"short_t_answer">>,
             <<"partial_c">>, <<"partial_t_answer">>, <<"open_c">>, <<"open_t">>,
             <<"ws_markup_text_c", "answer">>,
             <<"think_answer">>, <<"think_only">>, <<"fail_mid">>, <<"fail_open">>}}
  \cup
  {[native |-> <<"tool", "none">>, rounds |-> <<"markup_c", "answer">>],
   [native |-> <<"tool_nousage", "none_nousage">>, rounds |-> <<"answer_nousage">>],
   [native |-> <<"none_nousage">>, rounds |-> <<"answer_nousage">>],
   [native |-> <<"none_nousage">>, rounds |-> <<"think_only">>]}
\* the upstream behaviours tried for a turn of the given kind: a plain
\* streaming turn forwards every chunk as a frame, so it is driven with the
\* short scripts; a non-streaming turn never opens a stream
PlansFor(stream, use_tools) ==
  IF stream /\ use_tools THEN Plans
  ELSE IF stream
  THEN {[native |-> <<"none">>, rounds |-> r] :
          r \in {<<"answer">>, <<"answer_nousage">>, <<"think_answer">>, <<"think_only">>,
                 <<"short_c">>, <<"fail_mid">>, <<"fail_open">>}}
  ELSE {p \in Plans : p.rounds \in {<<"answer">>, <<"answer_nousage">>}}

(***************************************************************************)
(* The native tool loop (non-streaming model calls with tool schemas).    *)
(***************************************************************************)
\* max_iterations of the native loop of a streaming turn
max_iterations ==
  3

\* max_final_iterations of the streaming-final loop
max_final_iterations ==
  5

\* max_iterations of _execute_chat_with_tools_streaming (non-streaming turn)
nonstream_max_iterations ==
  5

UserText ==
  <<"h", "i">>

\* the locals of event_stream before the tool branch initialises its own
InitLocals ==
  [frames |-> <<>>, message_events |-> <<>>, accumulated |-> <<>>, token_info |-> <<>>,
   messages |-> <<>>, current_messages |-> <<>>, tool_calls_info |-> <<>>,
   thinking_content |-> <<>>, total_input_tokens |-> 0, total_output_tokens |-> 0,
   iteration |-> 0, is_thinking_done |-> FALSE, final_response_iterations |-> 0,
   xml_tool_buffer |-> <<>>, in_xml_tool_call |-> FALSE, has_xml_tool_call |-> FALSE,
   xml_tool_results |-> <<>>, pending_output |-> <<>>, has_real_content |-> FALSE,
   thinking_buffer |-> <<>>, is_thinking |-> FALSE]

\* the native tool calls without the try/except around _execute_tool: a
\* failing tool leaves the loop through the generator's except
RECURSIVE run_native_tools_unguarded(_, _, _, _)
run_native_tools_unguarded(x, tool_calls, outcomes, k) ==
  IF k > Len(tool_calls) \/ x.raised THEN x
  ELSE IF ~ tool_calls[k].json_ok \/ outcomes[k] = "fails"
  THEN [x EXCEPT !.raised = TRUE]
  ELSE run_native_tools_unguarded(
         [loc |-> add_event([Emit(Emit(x.loc, "tool_progress", <<"start">>), "tool_progress", <<"done">>)
                               EXCEPT !.tool_calls_info =
                                         Append(@, [name |-> tool_calls[k].name, args |-> tool_calls[k].args,
                                                    status |-> "success"]),
                                      !.current_messages =
                                         Append(@, [role |-> "tool", tool_calls |-> <<>>,
                                                    tool_call_id |-> tool_calls[k].id,
                                                    content |-> <<"r", "e", "s">>])],
                            "tool_call",
                            [name |-> tool_calls[k].name, args |-> tool_calls[k].args, status |-> "success"]),
          ran |-> Append(x.ran, [name |-> tool_calls[k].name, params |-> tool_calls[k].args]),
          raised |-> FALSE],
         tool_calls, outcomes, k + 1)

\* the tool calls of one native response where every tool message is keyed
\* to the id of the first call of the response
RECURSIVE run_native_tools_unkeyed(_, _, _, _)
run_native_tools_unkeyed(x, tool_calls, outcomes, k) ==
  IF k > Len(tool_calls) \/ x.raised THEN x
  ELSE IF ~ tool_calls[k].json_ok THEN [x EXCEPT !.raised = TRUE]
  ELSE run_native_tools_unkeyed(
         [loc |-> [x.loc EXCEPT !.current_messages =
                     Append(@, [role |-> "tool", tool_calls |-> <<>>,
                                tool_call_id |-> tool_calls[1].id,
                                content |-> _execute_tool(tool_calls[k].name, tool_calls[k].args,
                                                          outcomes[k]).text])],
          ran |-> Append(x.ran, [name |-> tool_calls[k].name, params |-> tool_calls[k].args]),
          raised |-> FALSE],
         tool_calls, outcomes, k + 1)
\* the tool calls of one native response, executed one after another.
\* x = [loc, ran, raised]; json.loads of a call's arguments may raise, which
\* leaves the loop through the generator's except
RECURSIVE run_native_tools(_, _, _, _)
run_native_tools(x, tool_calls, outcomes, k) ==
  IF k > Len(tool_calls) \/ x.raised THEN x
  ELSE LET tool_call == tool_calls[k]
       IN IF ~ tool_call.json_ok
          THEN [x EXCEPT !.raised = TRUE]
          ELSE LET res == _execute_tool(tool_call.name, tool_call.args, outcomes[k])
                   tool_info == [name |-> tool_call.name, args |-> tool_call.args,
                                 status |-> IF res.raised THEN "error" ELSE "success"]
                   l1 == Emit(x.loc, "tool_progress", <<"start">>)
                   l2 == Emit(l1, "tool_progress", IF res.raised THEN <<"error">> ELSE <<"done">>)
                   l3 == add_event([l2 EXCEPT !.tool_calls_info = Append(@, tool_info)],
                                   "tool_call", tool_info)
                   l4 == [l3 EXCEPT !.current_messages =
                            Append(@, [role |-> "tool", tool_calls |-> <<>>,
                                       tool_call_id |-> tool_call.id, content |-> res.text])]
               IN run_native_tools([loc |-> l4,
                                    ran |-> Append(x.ran, [name |-> tool_call.name, params |-> tool_call.args]),
                                    raised |-> FALSE],
                                   tool_calls, outcomes, k + 1)

\* one pass of  for iteration in range(max_iterations)  of the streaming
\* turn, for a response that arrived (HTTP success): usage is added, and
\* either the loop is left (no tool calls) or the calls are executed.
\* Result: [loc, ran, raised, left]
native_iteration(loc, resp, outcomes) ==
  LET l1 == [loc EXCEPT !.total_input_tokens = @ + Get(resp.usage, "prompt_tokens", 0),
                        !.total_output_tokens = @ + Get(resp.usage, "completion_tokens", 0)]
  IN IF resp.tool_calls = <<>>
     THEN [loc |-> Emit(l1, "tool_end", <<"skipped">>), ran |-> <<>>, raised |-> FALSE, left |-> TRUE]
     ELSE LET l2 == [l1 EXCEPT !.current_messages =
                       Append(@, [role |-> "assistant",
                                  tool_calls |-> [i \in 1..Len(resp.tool_calls) |-> resp.tool_calls[i].id],
                                  tool_call_id |-> "", content |-> resp.content])]
              x == run_native_tools([loc |-> l2, ran |-> <<>>, raised |-> FALSE],
                                    resp.tool_calls, outcomes, 1)
          IN [loc |-> [x.loc EXCEPT !.iteration = @ + 1],
              ran |-> x.ran, raised |-> x.raised,
              left |-> (loc.iteration + 1 >= max_iterations)]

\* after the native loop: the tool_end summary, and the initial state of
\* the streaming-final loop
native_done(loc) ==
  LET l1 == IF loc.tool_calls_info # <<>>
            THEN [Emit(loc, "tool_end", <<"done">>) EXCEPT !.tool_calls_info = <<>>]
            ELSE loc
  IN [l1 EXCEPT !.is_thinking_done = FALSE, !.final_response_iterations = 0,
                !.xml_tool_buffer = <<>>, !.in_xml_tool_call = FALSE, !.has_xml_tool_call = FALSE]

(***************************************************************************)
(* Plain streaming (no tools).                                            *)
(***************************************************************************)
\* len(json.dumps(messages, ensure_ascii=False)) for messages with string
\* contents: brackets, and per message the 31 characters of
\* {"role": "....", "content": ""} around role and content, ", " between
RECURSIVE json_dumps_len(_)
json_dumps_len(messages) ==
  IF messages = <<>> THEN 2
  ELSE json_dumps_len(Tail(messages)) + 27 + Len(Head(messages).role) + Len(Head(messages).content)
       + (IF Len(messages) > 1 THEN 2 ELSE 0)

Max(a, b) ==
  IF a >= b THEN a ELSE b

plain_thinking(loc, thinking) ==
  Emit([loc EXCEPT !.thinking_content = @ \o thinking], "thinking", thinking)

plain_content(loc, delta, enable_thinking) ==
  LET l1 == IF enable_thinking /\ loc.thinking_content # <<>> /\ ~ loc.is_thinking
            THEN add_event(Emit([loc EXCEPT !.is_thinking = TRUE], "thinking_end", loc.thinking_content),
                           "thinking", loc.thinking_content)
            ELSE loc
  IN Emit([l1 EXCEPT !.accumulated = @ \o delta], "text", delta)

\* after the plain stream: the text event, the estimate when no usage
\* event arrived, and the meta and [DONE] frames
plain_finish(loc) ==
  LET full_text == loc.accumulated
      l1 == IF full_text # <<>> THEN add_event(loc, "text", full_text) ELSE loc
      estimated_input == Max(1, json_dumps_len(loc.messages) \div 4)
      estimated_output == Max(1, Len(full_text) \div 4)
      token_info == IF l1.token_info = <<>>
                    THEN [model |-> "default", input_tokens |-> estimated_input,
                          output_tokens |-> estimated_output,
                          total_tokens |-> estimated_input + estimated_output,
                          estimated |-> TRUE]
                    ELSE l1.token_info
  IN Emit(Emit([l1 EXCEPT !.token_info = token_info], "meta", token_info), "done", <<>>)


(***************************************************************************)
(* The non-streaming tool loop (_execute_chat_with_tools_streaming).      *)
(***************************************************************************)
\* the tool calls of one response; x = [loc, ran, raised]
RECURSIVE run_nonstream_tools(_, _, _, _)
run_nonstream_tools(x, tool_calls, outcomes, k) ==
  IF k > Len(tool_calls) \/ x.raised THEN x
  ELSE LET tool_call == tool_calls[k]
       IN IF ~ tool_call.json_ok
          THEN [x EXCEPT !.raised = TRUE]
          ELSE LET res == _execute_tool(tool_call.name, tool_call.args, outcomes[k])
                   text == IF res.raised THEN <<"e", "x", "c">> ELSE res.text
                   l1 == [x.loc EXCEPT !.current_messages =
                            Append(@, [role |-> "tool", tool_calls |-> <<>>,
                                       tool_call_id |-> tool_call.id, content |-> text])]
               IN run_nonstream_tools([loc |-> l1,
                                       ran |-> Append(x.ran, [name |-> tool_call.name, params |-> tool_call.args]),
                                       raised |-> FALSE],
                                      tool_calls, outcomes, k + 1)

\* one pass of the loop for a response that arrived.
\* Result: [loc, ran, raised, returned]; on return loc.accumulated holds
\* final_content and loc.token_info the totals
nonstream_iteration(loc, resp, outcomes) ==
  LET l1 == [loc EXCEPT !.total_input_tokens = @ + Get(resp.usage, "prompt_tokens", 0),
                        !.total_output_tokens = @ + Get(resp.usage, "completion_tokens", 0),
                        !.current_messages =
                           Append(@, [role |-> "assistant",
                                      tool_calls |-> [i \in 1..Len(resp.tool_calls) |-> resp.tool_calls[i].id],
                                      tool_call_id |-> "", content |-> resp.content])]
      totals(l) == [model |-> "default", input_tokens |-> l.total_input_tokens,
                    output_tokens |-> l.total_output_tokens,
                    total_tokens |-> l.total_input_tokens + l.total_output_tokens]
  IN IF resp.tool_calls = <<>>
     THEN [loc |-> [l1 EXCEPT !.accumulated = resp.content, !.token_info = totals(l1)],
           ran |-> <<>>, raised |-> FALSE, returned |-> TRUE]
     ELSE LET x == run_nonstream_tools([loc |-> l1, ran |-> <<>>, raised |-> FALSE],
                                       resp.tool_calls, outcomes, 1)
              l2 == [x.loc EXCEPT !.iteration = @ + 1]
              last == l2.current_messages[Len(l2.current_messages)]
          IN IF ~ x.raised /\ l2.iteration >= nonstream_max_iterations
             THEN [loc |-> [l2 EXCEPT !.accumulated = last.content, !.token_info = totals(l2)],
                   ran |-> x.ran, raised |-> FALSE, returned |-> TRUE]
             ELSE [loc |-> l2, ran |-> x.ran, raised |-> x.raised, returned |-> FALSE]

(***************************************************************************)
(* Actions.                                                                *)
(***************************************************************************)
ChatInit ==
  /\ store = [conversations |-> {1}, messages |-> <<>>]
  /\ http = 0
  /\ pc = "idle"
  /\ turn = [conversation_id |-> 0, stream |-> FALSE, use_tools |-> FALSE,
             enable_thinking |-> FALSE, plan |-> [native |-> <<>>, rounds |-> <<>>]]
  /\ g = InitLocals
  /\ upstream = <<>>
  /\ executed = <<>>
  /\ calls = [native |-> 0, stream |-> 0]
  /\ reported = 0
  /\ client = "reading"
  /\ partial = "none"

\* no MCP server is registered
McpIdle ==
  mcp_client = [servers |-> <<>>, _tool_name_map |-> <<>>, advertised |-> <<>>, built |-> FALSE,
                dispatched |-> <<>>]

\* the request threads of the provider model
Threads ==
  {1, 2}

\* ProviderConfig.__init__: a missing api_base or api_key (0) falls back to
\* the settings (also written 0), a missing default_model to settings.AI_MODEL
ProviderConfig(api_base, api_key, default_model) ==
  [api_base |-> api_base, api_key |-> api_key,
   default_model |-> IF default_model = "" THEN "AI_MODEL" ELSE default_model]

\* a request thread without a request
IdleWorker ==
  [pc |-> "idle", present |-> FALSE, override_provider_id |-> 0, conversation_provider_id |-> 0,
   model |-> "", conversation_model |-> "", vision_provider_id |-> 0, use_tools |-> FALSE,
   resolved |-> [status |-> "none", source |-> "none", id |-> 0],
   config |-> ProviderConfig(0, 0, ""), swaps |-> 0, step |-> 0,
   payload_model |-> "", url |-> 0, url_set_by |-> 0, posts |-> <<>>]

\* AIManager.__init__ and no turn running
ProvidersIdle ==
  /\ ai_manager = [_provider |-> ProviderConfig(0, 0, ""), set_by |-> 0]
  /\ provider_db = [all_providers |-> <<>>, settings_api_base |-> TRUE]
  /\ workers = [t \in Threads |-> IdleWorker]

\* the concurrent invocations of call_tool and start_server
Callers ==
  {1, 2}

\* an invocation that has not begun
IdleCaller ==
  [pc |-> "idle", op |-> "none", method |-> "none", sent |-> 0, sent_to |-> 0, got |-> <<>>,
   error |-> FALSE]

\* add_server done, the server not started, nothing written; same_loop says
\* whether the invocations are coroutines of one event loop; initialized
\* holds the processes that answered initialize with a result
IoIdle(same_loop) ==
  [same_loop |-> same_loop, process |-> 0, spawned |-> 0, lock |-> 0, _request_id |-> 0,
   stdin |-> <<>>, stdout |-> <<>>, initialized |-> {},
   callers |-> [c \in Callers |-> IdleCaller]]

McpIoIdle ==
  mcp_io = IoIdle(TRUE)

\* no gateway call is being made
CallIdle ==
  gateway_call = [kind |-> "chat", outcome |-> "2xx", body_ok |-> TRUE, lines |-> <<>>, pos |-> 0,
                  pc |-> "idle", at_done |-> FALSE, resp |-> "none", client |-> "none",
                  abandoned |-> FALSE]

\* the conversations table before any request
ConvsIdle ==
  convs = [rows |-> <<>>, created |-> 0, last |-> [op |-> "none", id |-> 0, reused |-> FALSE, before |-> <<>>]]

Init ==
  /\ ChatInit
  /\ RespIdle
  /\ McpIdle
  /\ ProvidersIdle
  /\ McpIoIdle
  /\ ConvsIdle
  /\ CallIdle

\* POST /conversations/{id}/chat up to the choice of the reply mode
Request ==
  /\ pc = "idle"
  /\ \E conversation_id \in {1, 2}, stream \in BOOLEAN, use_tools \in BOOLEAN,
        enable_thinking \in BOOLEAN,
        override_provider_id \in {0, 1, 7}, conversation_provider_id \in {0, 2},
        all_providers \in {<<>>, <<1, 2>>}, settings_api_base \in BOOLEAN :
     \E plan \in PlansFor(stream, use_tools) :
       LET provider == _configure_ai_provider_for_conversation(
                          override_provider_id, conversation_provider_id,
                          all_providers, settings_api_base)
           r == chat_prologue(store, conversation_id, UserText, provider)
       IN /\ store' = r.store
          /\ turn' = [conversation_id |-> conversation_id, stream |-> stream,
                      use_tools |-> use_tools, enable_thinking |-> enable_thinking,
                      plan |-> plan]
          /\ g' = [g EXCEPT !.messages = get_context_messages(r.store, conversation_id)
                                           \o <<[role |-> "user", content |-> UserText]>>]
          /\ IF r.http # 0 THEN http' = r.http /\ pc' = "closed"
             ELSE IF stream THEN http' = 200 /\ pc' = "ack"
             ELSE http' = 0 /\ pc' = "nonstream"
  /\ UNCHANGED <<upstream, executed, calls, reported, client, partial>>
  /\ UNCHANGED aux

\* event_stream starts: the ack frame, then the tool branch announces
\* itself and sets up the native loop, or the plain branch opens its stream
Ack ==
  /\ pc = "ack"
  /\ IF turn.use_tools
     THEN /\ g' = [Emit(Emit(g, "ack", <<>>), "tool_start", <<>>)
                     EXCEPT !.current_messages = g.messages]
          /\ pc' = "native"
          /\ UNCHANGED <<upstream, calls>>
     ELSE /\ g' = IF turn.enable_thinking
                  THEN Emit(Emit(g, "ack", <<>>), "thinking_start", <<>>)
                  ELSE Emit(g, "ack", <<>>)
          /\ upstream' = Script(Nth(turn.plan.rounds, 1))
          /\ calls' = [calls EXCEPT !.stream = @ + 1]
          /\ pc' = "plain"
  /\ UNCHANGED <<store, http, turn, executed, reported, client, partial>>
  /\ UNCHANGED aux

\* one pass of the native tool loop: the model call and the tools it asks for
NativeCall ==
  /\ pc = "native"
  /\ g.iteration < max_iterations
  /\ LET resp == Response(Nth(turn.plan.native, calls.native + 1))
     IN /\ calls' = [calls EXCEPT !.native = @ + 1]
        /\ IF ~ resp.ok
           THEN /\ g' = on_exception(g)
                /\ pc' = "closed"
                /\ UNCHANGED <<executed, reported>>
           ELSE \E outcomes \in [1..Len(resp.tool_calls) -> ToolOutcomes] :
                  LET r == native_iteration(g, resp, outcomes)
                  IN /\ reported' = reported + Get(resp.usage, "prompt_tokens", 0)
                                             + Get(resp.usage, "completion_tokens", 0)
                     /\ executed' = executed \o r.ran
                     /\ IF r.raised THEN g' = on_exception(r.loc) /\ pc' = "closed"
                        ELSE IF r.left THEN g' = native_done(r.loc) /\ pc' = "round"
                        ELSE g' = r.loc /\ pc' = "native"
  /\ UNCHANGED <<store, http, turn, upstream, client, partial>>
  /\ UNCHANGED aux

\* while final_response_iterations < max_final_iterations: a new round opens
\* its stream
OpenRound ==
  /\ pc = "round"
  /\ g.final_response_iterations < max_final_iterations
  /\ LET l1 == [g EXCEPT !.final_response_iterations = @ + 1]
         l2 == IF turn.enable_thinking /\ ~ l1.is_thinking_done
               THEN Emit(l1, "thinking_start", <<>>) ELSE l1
     IN g' = [l2 EXCEPT !.pending_output = <<>>, !.has_real_content = FALSE,
                        !.thinking_buffer = <<>>]
  /\ upstream' = Script(Nth(turn.plan.rounds, g.final_response_iterations + 1))
  /\ calls' = [calls EXCEPT !.stream = @ + 1]
  /\ pc' = "streaming"
  /\ UNCHANGED <<store, http, turn, executed, reported, client, partial>>
  /\ UNCHANGED aux

\* the while condition fails: the loop is left by its cap
LeaveLoop ==
  /\ pc = "round"
  /\ ~ (g.final_response_iterations < max_final_iterations)
  /\ pc' = "finalize"
  /\ UNCHANGED <<store, http, turn, g, upstream, executed, calls, reported, client, partial>>
  /\ UNCHANGED aux

\* longest delta the upstream cuts out of a text, short of the whole rest
MaxChunk ==
  2

\* lengths of the next delta of a text of which len characters remain
ChunkLens(len) ==
  {n \in 1..len : n <= MaxChunk \/ n = len}

\* the upstream after a delta of n characters was taken
TakeChunk(n) ==
  LET e == Head(upstream)
  IN IF n = Len(e.content) THEN Tail(upstream)
     ELSE <<[e EXCEPT !.content = From(e.content, n + 1)]>> \o Tail(upstream)

StreamText ==
  /\ pc = "streaming"
  /\ upstream # <<>>
  /\ Head(upstream).type \in {"thinking", "content"}
  /\ \E n \in ChunkLens(Len(Head(upstream).content)) :
       LET chunk == Slice(Head(upstream).content, 1, n)
       IN /\ g' = IF Head(upstream).type = "thinking"
                  THEN on_thinking(g, chunk)
                  ELSE on_content(g, chunk, turn.enable_thinking)
          /\ upstream' = TakeChunk(n)
  /\ UNCHANGED <<store, http, pc, turn, executed, calls, reported, client, partial>>
  /\ UNCHANGED aux

StreamUsageEvent ==
  /\ pc = "streaming"
  /\ upstream # <<>>
  /\ Head(upstream).type = "usage"
  /\ g' = on_usage(g, Head(upstream).usage)
  /\ reported' = reported + Head(upstream).usage.input_tokens + Head(upstream).usage.output_tokens
  /\ upstream' = Tail(upstream)
  /\ UNCHANGED <<store, http, pc, turn, executed, calls, client, partial>>
  /\ UNCHANGED aux

\* the upstream connection breaks: the exception reaches the generator's except
StreamFail ==
  /\ pc \in {"streaming", "plain"}
  /\ upstream # <<>>
  /\ Head(upstream).type = "fail"
  /\ g' = on_exception(g)
  /\ upstream' = <<>>
  /\ pc' = "closed"
  /\ UNCHANGED <<store, http, turn, executed, calls, reported, client, partial>>
  /\ UNCHANGED aux

\* the stream of a round is exhausted: leftovers are flushed, a detected
\* block is parsed and its tools run, and the loop continues or ends
RoundEnd ==
  /\ pc = "streaming"
  /\ upstream = <<>>
  /\ LET Ran(x) == /\ g' = xml_round_reset(x.loc)
                   /\ executed' = executed \o x.ran
                   /\ pc' = "round"
         Tools(l1, invokes) ==
           \E outcomes \in [1..Len(invokes) -> ToolOutcomes] :
             Ran(run_xml_tools([loc |-> l1, ran |-> <<>>], invokes, outcomes, 1))
         After(l1) == IF l1.has_xml_tool_call
                      THEN Tools(l1, ParseInvokes(l1.xml_tool_buffer))
                      ELSE /\ g' = l1
                           /\ pc' = "finalize"
                           /\ UNCHANGED executed
     IN After(end_of_stream(g, turn.enable_thinking))
  /\ UNCHANGED <<store, http, turn, upstream, calls, reported, client, partial>>
  /\ UNCHANGED aux

\* tool mode: the frames after the loop, up to and including [DONE]
Finalize ==
  /\ pc = "finalize"
  /\ g' = finalize_tools(g, turn.enable_thinking)
  /\ pc' = "persist"
  /\ UNCHANGED <<store, http, turn, upstream, executed, calls, reported, client, partial>>
  /\ UNCHANGED aux

PlainText ==
  /\ pc = "plain"
  /\ upstream # <<>>
  /\ Head(upstream).type \in {"thinking", "content"}
  /\ \E n \in ChunkLens(Len(Head(upstream).content)) :
       LET chunk == Slice(Head(upstream).content, 1, n)
       IN /\ g' = IF Head(upstream).type = "thinking"
                  THEN plain_thinking(g, chunk)
                  ELSE plain_content(g, chunk, turn.enable_thinking)
          /\ upstream' = TakeChunk(n)
  /\ UNCHANGED <<store, http, pc, turn, executed, calls, reported, client, partial>>
  /\ UNCHANGED aux

PlainUsageEvent ==
  /\ pc = "plain"
  /\ upstream # <<>>
  /\ Head(upstream).type = "usage"
  /\ g' = [g EXCEPT !.token_info = Head(upstream).usage]
  /\ reported' = reported + Head(upstream).usage.input_tokens + Head(upstream).usage.output_tokens
  /\ upstream' = Tail(upstream)
  /\ UNCHANGED <<store, http, pc, turn, executed, calls, client, partial>>
  /\ UNCHANGED aux

PlainEnd ==
  /\ pc = "plain"
  /\ upstream = <<>>
  /\ g' = plain_finish(g)
  /\ pc' = "persist"
  /\ UNCHANGED <<store, http, turn, upstream, executed, calls, reported, client, partial>>
  /\ UNCHANGED aux

\* after [DONE]: the assistant message is written; a failure of the write
\* reaches the same except as every other failure
Persist ==
  /\ pc = "persist"
  /\ LET w == create_message(store, turn.conversation_id, "assistant", g.accumulated, g.token_info,
                             {"tool_calls", "thinking_content", "vision_content", "message_events"})
     IN /\ store' = w.store
        /\ g' = IF w.raised THEN on_exception(g) ELSE g
  /\ pc' = "closed"
  /\ UNCHANGED <<http, turn, upstream, executed, calls, reported, client, partial>>
  /\ UNCHANGED aux

\* the client stops reading: the generator is closed at the yield where it
\* is suspended (GeneratorExit is not an Exception, no handler runs)
ClientGone ==
  /\ pc \in {"native", "round", "streaming", "plain", "finalize", "persist"}
  /\ client = "reading"
  /\ client' = "gone"
  /\ pc' = "abandoned"
  /\ UNCHANGED <<store, http, turn, g, upstream, executed, calls, reported, partial>>
  /\ UNCHANGED aux


\* the text of the unnamed data frames the client received, concatenated
RECURSIVE ClientText(_)
ClientText(frames) ==
  IF frames = <<>> THEN <<>>
  ELSE (IF Head(frames).ev = "text" THEN Head(frames).data ELSE <<>>) \o ClientText(Tail(frames))

\* "\n\n[输出被中断]"
InterruptionMark ==
  <<"\n", "\n", "[", "c", "u", "t", "]">>

\* save_partial_message: 404 for an unknown conversation, nothing saved for
\* blank content, otherwise the stripped content plus the mark is written
\* through create_message with the keywords tool_calls and thinking_content
save_partial_message(st, conversation_id, content) ==
  IF conversation_id \notin st.conversations
  THEN [store |-> st, result |-> "HTTP404"]
  ELSE IF Strip(content) = <<>>
  THEN [store |-> st, result |-> "not_saved"]
  ELSE LET w == create_message(st, conversation_id, "assistant",
                               Strip(content) \o InterruptionMark,
                               [model |-> "unknown", input_tokens |-> 0,
                                output_tokens |-> 0, total_tokens |-> 0],
                               {"tool_calls", "thinking_content"})
       IN [store |-> w.store, result |-> IF w.raised THEN "HTTP500" ELSE "saved"]

\* after abandoning the stream the client posts the text it has received
SavePartial ==
  /\ pc = "abandoned"
  /\ partial = "none"
  /\ LET r == save_partial_message(store, turn.conversation_id, ClientText(g.frames))
     IN store' = r.store /\ partial' = r.result
  /\ UNCHANGED <<http, pc, turn, g, upstream, executed, calls, reported, client>>
  /\ UNCHANGED aux

\* non-streaming turn with tools: one pass of the loop of
\* _execute_chat_with_tools_streaming; on return the assistant message is
\* written and the request answers 200, any exception answers 500
NonStreamCall ==
  /\ pc = "nonstream"
  /\ turn.use_tools
  /\ LET resp == Response(Nth(turn.plan.native, calls.native + 1))
     IN /\ calls' = [calls EXCEPT !.native = @ + 1]
        /\ IF ~ resp.ok
           THEN /\ http' = 500 /\ pc' = "closed"
                /\ UNCHANGED <<store, g, executed, reported>>
           ELSE \E outcomes \in [1..Len(resp.tool_calls) -> ToolOutcomes] :
                  LET r == nonstream_iteration(
                              IF calls.native = 0 THEN [g EXCEPT !.current_messages = g.messages] ELSE g,
                              resp, outcomes)
                      w == create_message(store, turn.conversation_id, "assistant",
                                          r.loc.accumulated, r.loc.token_info, {})
                  IN /\ reported' = reported + Get(resp.usage, "prompt_tokens", 0)
                                             + Get(resp.usage, "completion_tokens", 0)
                     /\ executed' = executed \o r.ran
                     /\ g' = r.loc
                     /\ IF r.raised THEN http' = 500 /\ pc' = "closed" /\ UNCHANGED store
                        ELSE IF r.returned
                        THEN /\ store' = w.store
                             /\ http' = IF w.raised THEN 500 ELSE 200
                             /\ pc' = "closed"
                        ELSE UNCHANGED <<store, http, pc>>
  /\ UNCHANGED <<turn, upstream, client, partial>>
  /\ UNCHANGED aux

\* non-streaming turn without tools: ai_manager.chat(stream=False)
NonStreamPlain ==
  /\ pc = "nonstream"
  /\ ~ turn.use_tools
  /\ LET resp == Response(Nth(turn.plan.native, 1))
         token_info == [model |-> "default",
                        input_tokens |-> Get(resp.usage, "prompt_tokens", 0),
                        output_tokens |-> Get(resp.usage, "completion_tokens", 0),
                        total_tokens |-> Get(resp.usage, "total_tokens", 0)]
         w == create_message(store, turn.conversation_id, "assistant", resp.content, token_info, {})
     IN /\ calls' = [calls EXCEPT !.native = @ + 1]
        /\ IF ~ resp.ok
           THEN http' = 500 /\ UNCHANGED <<store, g, reported>>
           ELSE /\ store' = w.store
                /\ g' = [g EXCEPT !.accumulated = resp.content, !.token_info = token_info]
                /\ reported' = reported + Get(resp.usage, "prompt_tokens", 0)
                                        + Get(resp.usage, "completion_tokens", 0)
                /\ http' = IF w.raised THEN 500 ELSE 200
  /\ pc' = "closed"
  /\ UNCHANGED <<turn, upstream, executed, client, partial>>
  /\ UNCHANGED aux

Next ==
  \/ Request
  \/ Ack
  \/ NativeCall
  \/ OpenRound
  \/ LeaveLoop
  \/ StreamText
  \/ StreamUsageEvent
  \/ StreamFail
  \/ RoundEnd
  \/ Finalize
  \/ PlainText
  \/ PlainUsageEvent
  \/ PlainEnd
  \/ Persist
  \/ ClientGone
  \/ SavePartial
  \/ NonStreamCall
  \/ NonStreamPlain

Spec ==
  Init /\ [][Next]_vars


(***************************************************************************)
(* Properties.                                                             *)
(***************************************************************************)
\* the frames of one kind sent so far
FramesOf(ev) ==
  SelectSeq(g.frames, LAMBDA f : f.ev = ev)

\* a streaming turn with tools whose response has started
ToolStream ==
  turn.stream /\ turn.use_tools /\ http = 200

\* every non-streaming response of the turn's model carries a tool call
AlwaysToolCall ==
  /\ turn.plan.native # <<>>
  /\ \A k \in 1..Len(turn.plan.native) :
        Response(turn.plan.native[k]).ok /\ Response(turn.plan.native[k]).tool_calls # <<>>

\* C1: for a model whose every non-streaming response carries a tool call,
\* the native loop of a streaming turn makes exactly max_iterations (3) model
\* calls and then streams: it is never past the loop, and the turn never
\* over, with fewer calls or without a streaming round; the non-streaming
\* turn ends after nonstream_max_iterations (5) calls.
C1_NativeLoopCap ==
  AlwaysToolCall =>
    /\ ToolStream =>
         /\ calls.native <= max_iterations
         /\ pc \in {"round", "streaming", "finalize", "persist", "closed"} => calls.native = max_iterations
         /\ pc = "closed" => calls.stream >= 1
    /\ (~ turn.stream /\ turn.use_tools) =>
         /\ calls.native <= nonstream_max_iterations
         /\ (pc = "closed" /\ http \notin {400, 404}) => calls.native = nonstream_max_iterations

\* the same, for the models whose tool calls all carry parseable arguments
C1_CapWithParseableArguments ==
  (AlwaysToolCall /\ turn.plan.native = <<"tool">>) =>
    /\ ToolStream =>
         /\ calls.native <= max_iterations
         /\ pc \in {"round", "streaming", "finalize", "persist", "closed"} => calls.native = max_iterations
         /\ pc = "closed" => calls.stream >= 1
    /\ (~ turn.stream /\ turn.use_tools) =>
         /\ calls.native <= nonstream_max_iterations
         /\ (pc = "closed" /\ http \notin {400, 404}) => calls.native = nonstream_max_iterations


\* every stream of the turn's model is one complete function_calls block
AlwaysMarkup ==
  turn.plan.rounds \in {<<"markup_c">>, <<"markup_t">>}

\* the assistant messages stored for the conversation of the turn
AssistantMessages ==
  SelectSeq(store.messages,
            LAMBDA m : m.role = "assistant" /\ m.conversation_id = turn.conversation_id)

\* C2: for a model whose every streaming response holds a complete
\* function_calls block, the streaming-final loop opens at most
\* max_final_iterations (5) streams, whatever the native loop did, and the
\* turn ends finalized: a meta frame, [DONE], and the assistant message in
\* the store.
C2_FinalLoopCapAndFinalization ==
  (ToolStream /\ AlwaysMarkup) =>
    /\ calls.stream <= max_final_iterations
    /\ g.final_response_iterations <= max_final_iterations
    /\ pc = "closed" =>
         /\ Len(FramesOf("meta")) = 1
         /\ Len(FramesOf("done")) >= 1
         /\ Len(AssistantMessages) = 1

\* the part of C2 the code keeps: five rounds at most, then meta and [DONE]
C2_FinalLoopCap ==
  (ToolStream /\ AlwaysMarkup) =>
    /\ calls.stream <= max_final_iterations
    /\ g.final_response_iterations <= max_final_iterations
    /\ pc \in {"persist", "closed"} =>
         /\ calls.stream = max_final_iterations
         /\ Len(executed) = max_final_iterations
         /\ Len(FramesOf("meta")) = 1
         /\ Len(FramesOf("done")) >= 1


\* the invocation the markup of C3 spells out
WebSearchCats ==
  [name |-> <<"w", "e", "b", "_", "s", "e", "a", "r", "c", "h">>,
   params |-> <<[name |-> <<"q", "u", "e", "r", "y">>, value |-> [str |-> <<"c", "a", "t", "s">>]]>>]

\* a streaming turn with tools whose native call asks for no tool and whose
\* streams carry the markup, in the thinking or in the content channel,
\* in every round or in the first round only (then the answer follows)
MarkupTurn ==
  /\ ToolStream
  /\ turn.plan.native = <<"none">>
  /\ turn.plan.rounds \in {<<"markup_c">>, <<"markup_t">>, <<"markup_c", "answer">>, <<"markup_t", "answer">>}

\* rounds whose stream has ended and been dealt with
RoundsDone ==
  IF pc = "streaming" THEN g.final_response_iterations - 1 ELSE g.final_response_iterations

\* of those, the rounds that carried the markup
MarkupRoundsDone ==
  IF Len(turn.plan.rounds) = 1 \/ RoundsDone = 0 THEN RoundsDone ELSE 1

\* C3: when the markup arrives in the thinking or the content channel, cut
\* into deltas anywhere, each round that carried it yields exactly one
\* invocation web_search {query: "cats"}, executed once, and no thinking,
\* thinking_end or text frame carries any character of the markup (the only
\* text ever sent is the answer of a later round).
C3_DetectionPrecision ==
  (MarkupTurn /\ pc # "abandoned") =>
    /\ executed = [i \in 1..MarkupRoundsDone |-> WebSearchCats]
    /\ \A i \in 1..Len(g.frames) :
          g.frames[i].ev \in {"thinking", "thinking_end"} => g.frames[i].data = <<>>
    /\ IF Len(turn.plan.rounds) = 1 THEN ClientText(g.frames) = <<>>
       ELSE StartsWith(AnswerText, ClientText(g.frames))

\* a second round is under way, its markup cut inside the tag name
\* "<func|tion_calls>", after the first round's block was executed once
C3_Witness ==
  /\ MarkupTurn
  /\ pc = "streaming"
  /\ executed = <<WebSearchCats>>
  /\ upstream # <<>>
  /\ Head(upstream).type \in {"thinking", "content"}
  /\ Len(Head(upstream).content) = Len(Markup) - 5


\* the concatenated data of the frames of one event name
RECURSIVE FrameText(_, _)
FrameText(frames, ev) ==
  IF frames = <<>> THEN <<>>
  ELSE (IF Head(frames).ev = ev THEN Head(frames).data ELSE <<>>) \o FrameText(Tail(frames), ev)

\* a streaming turn whose single stream carries prose with a "<" that opens
\* no tag, in the content or in the thinking channel, and has ended
ContentProseEnded ==
  /\ turn.stream
  /\ turn.plan.native = <<"none">>
  /\ turn.plan.rounds \in {<<"prose_c">>, <<"short_c">>}
  /\ pc \in {"persist", "closed"}
  /\ http = 200

ThinkingProseEnded ==
  /\ ToolStream
  /\ turn.plan.native = <<"none">>
  /\ turn.plan.rounds \in {<<"prose_t">>, <<"prose_t_answer">>, <<"short_t_answer">>}
  /\ pc \in {"persist", "closed"}
  /\ http = 200

ProseSent ==
  IF turn.plan.rounds \in {<<"prose_c">>, <<"prose_t">>, <<"prose_t_answer">>}
  THEN ProseHeart ELSE ProseShort

\* C4: prose with a "<" that matches no tag grammar, in either channel and
\* under every chunking, reaches the client whole and in order in the events
\* of its channel (text frames for the content channel; for the thinking
\* channel the thinking frames, or a thinking_end frame carrying the whole
\* thinking text, or the text frames when the thinking is promoted to the
\* answer), and no tool invocation is extracted.
C4_NoFalsePositive ==
  /\ ContentProseEnded =>
       /\ executed = <<>>
       /\ ClientText(g.frames) = ProseSent
  /\ ThinkingProseEnded =>
       /\ executed = <<>>
       /\ \/ FrameText(g.frames, "thinking") = ProseSent
          \/ \E i \in 1..Len(g.frames) :
                g.frames[i].ev = "thinking_end" /\ g.frames[i].data = ProseSent
          \/ StartsWith(ClientText(g.frames), ProseSent)

\* the part of C4 the code keeps: content-channel prose is forwarded whole,
\* and prose in neither channel is taken for an invocation
C4_ContentProseForwarded ==
  /\ ContentProseEnded => (executed = <<>> /\ ClientText(g.frames) = ProseSent)
  /\ ThinkingProseEnded => executed = <<>>


\* the token info of the meta frame
MetaInfo ==
  FramesOf("meta")[1].data

\* C5: in a streaming turn with tools, the total_tokens of the meta frame
\* (and so of the token info handed to the store) is the sum of
\* prompt_tokens + completion_tokens the upstream reported over every
\* native-loop call and every streaming round of the turn.
C5_TokenSum ==
  (ToolStream /\ FramesOf("meta") # <<>>) => MetaInfo.total_tokens = reported

\* what the code does keep: the total never exceeds what was reported, and
\* it is exact when no stream reported usage
C5_NativeUsageCounted ==
  (ToolStream /\ FramesOf("meta") # <<>>) =>
    /\ MetaInfo.total_tokens <= reported
    /\ MetaInfo.total_tokens = MetaInfo.input_tokens + MetaInfo.output_tokens

\* C6: in a streaming turn, with or without tools, in which the upstream
\* never reported usage, the token info of the meta frame is flagged as an
\* estimate, and its total_tokens is above zero when the final text is
\* non-empty.
C6_EstimateWhenNoUsage ==
  (turn.stream /\ http = 200 /\ FramesOf("meta") # <<>> /\ reported = 0) =>
    /\ Get(MetaInfo, "estimated", FALSE)
    /\ g.accumulated # <<>> => MetaInfo.total_tokens > 0

\* the plain streaming mode does estimate
C6_PlainModeEstimates ==
  (turn.stream /\ ~ turn.use_tools /\ http = 200 /\ FramesOf("meta") # <<>> /\ reported = 0) =>
    /\ Get(MetaInfo, "estimated", FALSE)
    /\ MetaInfo.total_tokens > 0


\* the stream of a turn with tools was abandoned in its streaming rounds
\* after some answer text had been forwarded, and
\* the text received has been posted to the partial-message endpoint (the
\* text has no blank at either end, so stripping leaves it as it is)
InterruptedWithText ==
  /\ ToolStream
  /\ pc = "abandoned"
  /\ partial # "none"
  /\ ClientText(g.frames) # <<>>
  /\ Strip(ClientText(g.frames)) = ClientText(g.frames)

\* C7: after the stream was abandoned with N characters of answer text
\* forwarded, the conversation holds an assistant message whose content is
\* exactly those N characters followed by the interruption mark.
C7_PartialPersisted ==
  InterruptedWithText =>
    \E i \in 1..Len(AssistantMessages) :
       AssistantMessages[i].content = ClientText(g.frames) \o InterruptionMark

\* what happens instead: the save fails and no assistant message exists
C7_PartialNeverStored ==
  InterruptedWithText => (partial = "HTTP500" /\ AssistantMessages = <<>>)


\* the stored user message of the running turn
UserMessageStored ==
  /\ store.messages # <<>>
  /\ store.messages[1].role = "user"
  /\ store.messages[1].content = UserText
  /\ store.messages[1].conversation_id = turn.conversation_id

\* C8: once a chat request on an existing conversation has been taken up,
\* its user message is in the store: before the provider is resolved (so
\* also when the request ends with 400), before any model call or tool
\* execution, and on every later failure path; a request on an unknown
\* conversation ends with 404, stores nothing and calls nothing.
C8_UserMessageDurable ==
  pc # "idle" =>
    IF turn.conversation_id \in store.conversations
    THEN UserMessageStored /\ http # 404
    ELSE /\ http = 404
         /\ pc = "closed"
         /\ store.messages = <<>>
         /\ calls = [native |-> 0, stream |-> 0]
         /\ executed = <<>>

\* the request was refused for want of a provider, and the user message is there
C8_Witness ==
  /\ pc = "closed"
  /\ http = 400
  /\ UserMessageStored


\* a streaming response that has ended on the server's side
StreamEnded ==
  turn.stream /\ http = 200 /\ pc = "closed"

\* C9: every streaming response that ends, on the success path and on every
\* failure path, carries the [DONE] frame exactly once and as its last
\* frame, and after a failure the error frame comes right before it.
C9_CleanTermination ==
  StreamEnded =>
    /\ Len(FramesOf("done")) = 1
    /\ g.frames[Len(g.frames)].ev = "done"
    /\ FramesOf("error") # <<>> => g.frames[Len(g.frames) - 1].ev = "error"

\* what the code keeps: the response ends with [DONE] and every error frame
\* is followed at once by a [DONE]; but [DONE] is sent before the assistant
\* message is written, so a failure of that write sends it a second time
C9_EndsWithDone ==
  StreamEnded =>
    /\ g.frames[Len(g.frames)].ev = "done"
    /\ Len(FramesOf("done")) \in {1, 2}
    /\ \A i \in 1..Len(g.frames) :
          g.frames[i].ev = "error" => (i < Len(g.frames) /\ g.frames[i + 1].ev = "done")
    /\ Len(FramesOf("done")) = 2 => FramesOf("meta") # <<>>

\* C10: on a successful streaming turn the assistant message is written
\* before the [DONE] frame is sent: whenever [DONE] has been sent after the
\* meta frame, the store holds the assistant message, whatever the client
\* does from then on.
C10_PersistBeforeDone ==
  (turn.stream /\ http = 200 /\ FramesOf("meta") # <<>> /\ FramesOf("done") # <<>>) =>
    Len(AssistantMessages) = 1

\* what the code does: when the first [DONE] goes out nothing has been
\* written yet, and a client leaving at that point ends the generator there
C10_DoneBeforePersist ==
  (turn.stream /\ http = 200 /\ pc = "persist") =>
    /\ g.frames[Len(g.frames)].ev = "done"
    /\ AssistantMessages = <<>>


\* the tool results in the model context, in order: the content of every
\* "tool" message and the entries of every XML-round system message
RECURSIVE ToolResults(_)
ToolResults(msgs) ==
  IF msgs = <<>> THEN <<>>
  ELSE (IF Head(msgs).role = "tool" THEN <<Head(msgs).content>>
        ELSE IF Head(msgs).role = "system" THEN Head(msgs).content
        ELSE <<>>) \o ToolResults(Tail(msgs))

\* a tool of the turn has failed: its error text is in the context
ToolFailed ==
  \E i \in 1..Len(ToolResults(g.current_messages)) :
     ToolResults(g.current_messages)[i] = <<"e", "r", "r">>

\* a streaming turn with tools whose upstream never fails and whose tool
\* calls all carry parseable arguments
HealthyUpstream ==
  /\ ToolStream
  /\ \A k \in 1..Len(turn.plan.native) :
        turn.plan.native[k] \in {"tool", "tool_nousage", "two_tools", "none", "none_nousage"}
  /\ \A k \in 1..Len(turn.plan.rounds) :
        turn.plan.rounds[k] \notin {"fail_mid", "fail_open"}

\* the number of native model calls the plan leads to when nothing aborts
\* the loop: up to the first response without tool calls, at most the cap
RECURSIVE NativeCallsDue(_)
NativeCallsDue(k) ==
  IF k >= max_iterations \/ Response(Nth(turn.plan.native, k)).tool_calls = <<>> THEN k
  ELSE NativeCallsDue(k + 1)

\* C11: a failing tool never aborts the turn.  In the native loop and in an
\* XML round every executed tool, failed or not, leaves one textual result
\* in the model context and one tool_call event in the log, and the turn
\* goes on as it would have without the failure: the native loop makes all
\* the model calls that are due, and a turn that ends has reached its
\* finalization (the meta frame).
C11_ToolFailureAbsorbed ==
  HealthyUpstream =>
    /\ Len(ToolResults(g.current_messages)) = Len(executed)
    /\ \A i \in 1..Len(ToolResults(g.current_messages)) :
          ToolResults(g.current_messages)[i] \in {<<"r", "e", "s">>, <<"e", "r", "r">>}
    /\ Len(SelectSeq(g.message_events, LAMBDA e : e.type = "tool_call")) = Len(executed)
    /\ \A i \in 1..Len(g.frames) :
          g.frames[i].ev = "error" => (i > 1 /\ g.frames[i - 1].ev = "done")
    /\ pc \in {"round", "streaming", "finalize", "persist", "closed"} =>
          calls.native = NativeCallsDue(1)
    /\ pc = "closed" => FramesOf("meta") # <<>>

\* a turn that ended after its finalization although a tool failed in it
C11_Witness ==
  /\ HealthyUpstream
  /\ turn.plan = [native |-> <<"tool", "none">>, rounds |-> <<"markup_c", "answer">>]
  /\ ToolResults(g.current_messages) = <<<<"e", "r", "r">>, <<"e", "r", "r">>>>
  /\ pc = "closed"
  /\ FramesOf("meta") # <<>>


\* a streaming turn whose only stream carried thinking text and nothing
\* else, and which has reached its finalization
ThinkingOnlyFinalized ==
  /\ turn.stream
  /\ http = 200
  /\ turn.plan.rounds = <<"think_only">>
  /\ FramesOf("meta") # <<>>

\* C12: in a streaming turn, with or without tools, whose model output is
\* thinking text only, the thinking text is sent as visible answer text and
\* is the body handed to the store for the assistant message, which is
\* therefore not empty.
C12_ThinkingOnlyFallback ==
  ThinkingOnlyFinalized =>
    /\ ClientText(g.frames) = ThinkText
    /\ g.accumulated = ThinkText

\* the tool mode does promote the thinking text; the plain mode sends no
\* text at all and hands an empty body to the store
C12_ToolModePromotes ==
  ThinkingOnlyFinalized =>
    IF turn.use_tools
    THEN ClientText(g.frames) = ThinkText /\ g.accumulated = ThinkText
    ELSE ClientText(g.frames) = <<>> /\ g.accumulated = <<>>


\* a streaming turn with tools whose single stream ended while a possible
\* tag prefix was held or an opened block was being collected, in the
\* content or in the thinking channel, and which has reached finalization
ContentCutFinalized ==
  /\ ToolStream
  /\ turn.plan.rounds \in {<<"partial_c">>, <<"open_c">>}
  /\ FramesOf("meta") # <<>>

ThinkingCutFinalized ==
  /\ ToolStream
  /\ turn.plan.rounds \in {<<"partial_t_answer">>, <<"open_t">>}
  /\ FramesOf("meta") # <<>>

CutSent ==
  IF turn.plan.rounds \in {<<"partial_c">>, <<"partial_t_answer">>} THEN PartialTag ELSE OpenBlock

\* C13: when a round ends while the detector holds a possible tag prefix or
\* collects a block that was never closed, everything held or collected
\* reaches the client as ordinary output (content channel: the text frames
\* and the body handed to the store; thinking channel: the thinking frames,
\* a thinking_end frame carrying the whole thinking text, or the text
\* frames) and no tool is executed.
C13_IncompleteMarkupFlushed ==
  /\ ContentCutFinalized =>
       /\ executed = <<>>
       /\ ClientText(g.frames) = CutSent
       /\ g.accumulated = CutSent
  /\ ThinkingCutFinalized =>
       /\ executed = <<>>
       /\ \/ FrameText(g.frames, "thinking") = CutSent
          \/ \E i \in 1..Len(g.frames) :
                g.frames[i].ev = "thinking_end" /\ g.frames[i].data = CutSent
          \/ StartsWith(ClientText(g.frames), CutSent)

\* what the code keeps: the content channel is flushed whole, a block
\* opened in the thinking channel comes out as text, and nothing is executed
C13_ContentCutFlushed ==
  /\ ContentCutFinalized =>
       (executed = <<>> /\ ClientText(g.frames) = CutSent /\ g.accumulated = CutSent)
  /\ ThinkingCutFinalized => executed = <<>>
  /\ (ThinkingCutFinalized /\ turn.plan.rounds = <<"open_t">>) => ClientText(g.frames) = OpenBlock


\* the concatenated content of the log events of one type ("thinking" or "text")
RECURSIVE LogText(_, _)
LogText(events, type) ==
  IF events = <<>> THEN <<>>
  ELSE (IF Head(events).type = type THEN Head(events).content ELSE <<>>) \o LogText(Tail(events), type)

\* a is b with some elements left out
RECURSIVE IsSubseq(_, _)
IsSubseq(a, b) ==
  IF a = <<>> THEN TRUE
  ELSE IF b = <<>> THEN FALSE
  ELSE IF Head(a) = Head(b) THEN IsSubseq(Tail(a), Tail(b))
  ELSE IsSubseq(a, Tail(b))

\* the tool summaries the client was shown: one closing tool_progress frame
\* per executed tool
ToolSummariesShown ==
  Len(SelectSeq(g.frames, LAMBDA f : f.ev = "tool_progress" /\ f.data # <<"start">>))

\* a streaming turn that has reached its finalization: the event log is
\* what is handed to the store
StreamFinalized ==
  turn.stream /\ http = 200 /\ FramesOf("meta") # <<>>

\* C14: the event log of a streaming turn replays what the client was
\* shown: its text events give the text frames, its thinking events hold,
\* in order, every character streamed in thinking frames, and it has one
\* tool_call event per tool summary.
C14_EventLogFidelity ==
  StreamFinalized =>
    /\ LogText(g.message_events, "text") = ClientText(g.frames)
    /\ IsSubseq(FrameText(g.frames, "thinking"), LogText(g.message_events, "thinking"))
    /\ Len(SelectSeq(g.message_events, LAMBDA e : e.type = "tool_call")) = ToolSummariesShown

\* what the code keeps: text and tool summaries are logged as shown, and
\* thinking is logged only through thinking_end
C14_TextAndToolsLogged ==
  StreamFinalized =>
    /\ LogText(g.message_events, "text") = ClientText(g.frames)
    /\ Len(SelectSeq(g.message_events, LAMBDA e : e.type = "tool_call")) = ToolSummariesShown
    /\ FramesOf("thinking_end") = <<>> => LogText(g.message_events, "thinking") = <<>>


(***************************************************************************)
(* The gateway's stream reader, AIManager.chat._iter (ai_manager.py).     *)
(***************************************************************************)
ThoughtOpen ==
  <<"<", "t", "h", "o", "u", "g", "h", "t", ">">>

ThoughtClose ==
  <<"<", "/", "t", "h", "o", "u", "g", "h", "t", ">">>

\* str.find(sub, from) as a 1-based position, 0 when absent
Find(s, sub, from) ==
  LET hits == {i \in from..(Len(s) - Len(sub) + 1) : Slice(s, i, i + Len(sub) - 1) = sub}
  IN IF hits = {} THEN 0 ELSE SetMin(hits)

\* sub in s
Contains(s, sub) ==
  Find(s, sub, 1) # 0

\* str.replace(sub, "")
RECURSIVE ReplaceAll(_, _)
ReplaceAll(s, sub) ==
  IF Find(s, sub, 1) = 0 THEN s
  ELSE Slice(s, 1, Find(s, sub, 1) - 1) \o ReplaceAll(From(s, Find(s, sub, 1) + Len(sub)), sub)

\* re.search(r'<thought>(.*?)</thought>', content, re.DOTALL): the leftmost
\* opening tag and the first closing tag after it; open = 0 when no match
thought_match(content) ==
  LET At(open) == IF open = 0 \/ Find(content, ThoughtClose, open + Len(ThoughtOpen)) = 0
                  THEN [open |-> 0, close |-> 0]
                  ELSE [open |-> open, close |-> Find(content, ThoughtClose, open + Len(ThoughtOpen))]
  IN At(Find(content, ThoughtOpen, 1))

\* re.sub(r'<thought>.*?</thought>', '', content, flags=re.DOTALL)
RECURSIVE thought_sub(_)
thought_sub(content) ==
  LET Cut(m) == IF m.open = 0 THEN content
                ELSE Slice(content, 1, m.open - 1) \o thought_sub(From(content, m.close + Len(ThoughtClose)))
  IN Cut(thought_match(content))

\* the events of one delta with the content yielded ahead of the reasoning
delta_events_content_first(delta) ==
  (IF delta.content # <<>> THEN <<[type |-> "content", content |-> delta.content]>> ELSE <<>>)
  \o (IF delta.reasoning_content # <<>> THEN <<[type |-> "thinking", content |-> delta.reasoning_content]>>
      ELSE IF delta.thinking # <<>> THEN <<[type |-> "thinking", content |-> delta.thinking]>>
      ELSE <<>>)

\* the events one delta yields, in the order of the yield statements
delta_events(delta) ==
  LET reasoning == IF delta.reasoning_content # <<>> THEN delta.reasoning_content ELSE delta.thinking
      content == delta.content
      Think(t) == <<[type |-> "thinking", content |-> t]>>
      Body(c) == IF c # <<>> THEN <<[type |-> "content", content |-> c]>> ELSE <<>>
      Tagged(m) ==
        IF m.open # 0
        THEN Think(Slice(content, m.open + Len(ThoughtOpen), m.close - 1)) \o Body(thought_sub(content))
        ELSE IF Contains(content, ThoughtOpen) /\ ~ Contains(content, ThoughtClose)
        THEN Think(ReplaceAll(content, ThoughtOpen))
        ELSE IF Contains(content, ThoughtClose) /\ ~ Contains(content, ThoughtOpen)
        THEN Think(ReplaceAll(content, ThoughtClose))
        ELSE Body(content)
  IN (IF reasoning # <<>> THEN Think(reasoning) ELSE <<>>)
     \o (IF content = <<>> THEN <<>>
         ELSE IF Contains(content, ThoughtOpen) \/ Contains(content, ThoughtClose)
         THEN Tagged(thought_match(content))
         ELSE Body(content))

\* the lines an upstream response may hold: "blank" (empty line), "junk"
\* (not JSON), "done" (the [DONE] line), or a JSON object with a usage dict
\* and, unless choices is empty, a delta
Delta(r, t, c) ==
  [kind |-> "delta", reasoning_content |-> r, thinking |-> t, content |-> c, usage |-> <<>>]

\* a usage dict whose prompt_tokens is 0
ZeroUsage ==
  [prompt_tokens |-> 0, completion_tokens |-> 1, total_tokens |-> 1]

UpstreamLines ==
  {Delta(r, t, c) :
     r \in {<<>>, <<"r">>}, t \in {<<>>, <<"t">>},
     c \in {<<>>, <<"c">>, ThoughtOpen \o <<"g">> \o ThoughtClose \o <<"c">>,
            ThoughtOpen \o <<"g">>, <<"g">> \o ThoughtClose}}
  \cup {[kind |-> "nochoices", usage |-> StreamUsage], [kind |-> "junk"], [kind |-> "blank"], [kind |-> "done"]}
  \cup {[kind |-> "nochoices", usage |-> NativeUsage], [kind |-> "nochoices", usage |-> ZeroUsage]}

\* longest upstream response tried
MaxLines ==
  2

\* one pass of  for line in resp.iter_lines()  for a line other than
\* [DONE]; every yielded event is tagged with the number of its line
\* the variables the stream reader leaves alone
gateway_rest ==
  <<chat, mcp_client, ai_manager, provider_db, workers, mcp_io, gateway_call, convs>>

ReadLine ==
  /\ ~ stream_resp.closed
  /\ stream_resp.pos < Len(stream_resp.lines)
  /\ stream_resp.lines[stream_resp.pos + 1].kind # "done"
  /\ LET n == stream_resp.pos + 1
         line == stream_resp.lines[n]
         evs == IF line.kind = "delta" THEN delta_events(line) ELSE <<>>
     IN stream_resp' =
          [stream_resp EXCEPT
             !.pos = n,
             !.usage_info = IF line.kind \in {"delta", "nochoices"} /\ gateway_usage_event(line.usage) # <<>>
                            THEN gateway_usage_event(line.usage) ELSE @,
             !.yielded = @ \o [i \in 1..Len(evs) |-> [line |-> n, type |-> evs[i].type, content |-> evs[i].content]]]
  /\ UNCHANGED gateway_rest

\* the [DONE] line: the collected usage is yielded and the loop is left
ReadDone ==
  /\ ~ stream_resp.closed
  /\ stream_resp.pos < Len(stream_resp.lines)
  /\ stream_resp.lines[stream_resp.pos + 1].kind = "done"
  /\ stream_resp' =
       [stream_resp EXCEPT
          !.pos = @ + 1,
          !.closed = TRUE,
          !.yielded = @ \o [i \in 1..Len(stream_resp.usage_info) |->
                              [line |-> stream_resp.pos + 1, type |-> "usage",
                               content |-> stream_resp.usage_info[i].usage]]]
  /\ UNCHANGED gateway_rest

\* the response ends without a [DONE] line: finally: resp.close()
ReadEnd ==
  /\ ~ stream_resp.closed
  /\ stream_resp.pos = Len(stream_resp.lines)
  /\ stream_resp' = [stream_resp EXCEPT !.closed = TRUE]
  /\ UNCHANGED gateway_rest

GatewayInit ==
  /\ ChatInit
  /\ McpIdle
  /\ ProvidersIdle
  /\ McpIoIdle
  /\ ConvsIdle
  /\ CallIdle
  /\ \E n \in 0..MaxLines :
       \E lines \in [1..n -> UpstreamLines] :
          stream_resp = [lines |-> lines, pos |-> 0, yielded |-> <<>>, usage_info |-> <<>>, closed |-> FALSE]

GatewayNext ==
  \/ ReadLine
  \/ ReadDone
  \/ ReadEnd

GatewaySpec ==
  GatewayInit /\ [][GatewayNext]_vars

\* the reasoning text of a delta line
ReasoningOf(line) ==
  IF line.reasoning_content # <<>> THEN line.reasoning_content ELSE line.thinking

\* the events yielded for line n, in order
EventsOfLine(n) ==
  SelectSeq(stream_resp.yielded, LAMBDA e : e.line = n)

\* C15: for every upstream line that has been read and whose delta carries
\* both reasoning text and content, the first event yielded for the line is
\* the thinking event with that reasoning text, every content event of the
\* line comes after every thinking event of the line, and over the whole
\* stream the events of an earlier line precede those of a later line.
C15_ThinkingBeforeContent ==
  /\ \A i \in 1..Len(stream_resp.yielded), j \in 1..Len(stream_resp.yielded) :
        i < j => stream_resp.yielded[i].line <= stream_resp.yielded[j].line
  /\ \A n \in 1..stream_resp.pos :
        LET line == stream_resp.lines[n]
            evs == EventsOfLine(n)
        IN (line.kind = "delta" /\ ReasoningOf(line) # <<>> /\ line.content # <<>>) =>
             /\ evs # <<>>
             /\ evs[1] = [line |-> n, type |-> "thinking", content |-> ReasoningOf(line)]
             /\ \A i \in 1..Len(evs), j \in 1..Len(evs) :
                   (evs[i].type = "content" /\ evs[j].type = "thinking") => j < i

\* a line with reasoning text and plain content has been read after another
\* line, and both of its events are out
C15_Witness ==
  /\ stream_resp.pos = 2
  /\ stream_resp.lines[2] = Delta(<<"r">>, <<>>, <<"c">>)
  /\ EventsOfLine(1) # <<>>
  /\ Len(EventsOfLine(2)) = 2
  /\ EventsOfLine(2)[2].type = "content"

\* the lines read so far that carry a usage with non-zero prompt_tokens
UsageFrames ==
  {n \in 1..stream_resp.pos :
     /\ stream_resp.lines[n].kind \in {"delta", "nochoices"}
     /\ Get(stream_resp.lines[n].usage, "prompt_tokens", 0) # 0}

\* the positions of the usage events among the yielded events
UsageEvents ==
  {i \in 1..Len(stream_resp.yielded) : stream_resp.yielded[i].type = "usage"}

\* the stream carried usage: one usage event, the last event, with the
\* values of the last usage frame; it carried none: no usage event
UsageReported ==
  IF UsageFrames = {} THEN UsageEvents = {}
  ELSE /\ UsageEvents = {Len(stream_resp.yielded)}
       /\ stream_resp.yielded[Len(stream_resp.yielded)].content
            = gateway_usage_event(stream_resp.lines[CHOOSE n \in UsageFrames : \A k \in UsageFrames : k <= n].usage)[1].usage

\* C21: when the generator has finished, however the stream ended (with
\* the [DONE] line or by the lines ending), a stream with a frame of
\* non-zero usage.prompt_tokens has yielded exactly one usage event, as its
\* last event, with the values of the last such frame, and a stream without
\* such a frame has yielded no usage event.
C21_TerminalUsageEvent ==
  stream_resp.closed => UsageReported

\* what the code keeps: the same for every stream that ended with [DONE]
C21_UsageAtDone ==
  (/\ stream_resp.closed
   /\ stream_resp.pos > 0
   /\ stream_resp.lines[stream_resp.pos].kind = "done") => UsageReported


(***************************************************************************)
(* MCP tool names (mcp_client.py): sanitising, advertising, parsing.      *)
(***************************************************************************)
\* the characters the pattern [a-zA-Z0-9_.\-:] lets through
AllowedChars ==
  {LowerChars[i] : i \in 1..26} \cup {UpperChars[i] : i \in 1..26} \cup {Digits[i] : i \in 1..10}
  \cup {"_", ".", "-", ":"}

\* re.sub(r'_+', '_', s)
RECURSIVE CollapseUnderscores(_)
CollapseUnderscores(s) ==
  IF Len(s) < 2 THEN s
  ELSE IF s[1] = "_" /\ s[2] = "_" THEN CollapseUnderscores(Tail(s))
  ELSE <<s[1]>> \o CollapseUnderscores(Tail(s))

\* str.rstrip('_')
RStripUnderscore(s) ==
  LET keep == {i \in 1..Len(s) : s[i] # "_"}
  IN IF keep = {} THEN <<>>
     ELSE Slice(s, 1, CHOOSE i \in keep : \A j \in keep : i >= j)

\* MCPClient._sanitize_tool_name
_sanitize_tool_name(name) ==
  LET Named(t) == IF t = <<>> THEN <<"u", "n", "n", "a", "m", "e", "d">> ELSE t
      Led(t) == IF t # <<>> /\ t[1] \notin (AllowedChars \ ({Digits[i] : i \in 1..10} \cup {".", "-", ":"}))
                THEN <<"_">> \o t ELSE t
  IN Named(RStripUnderscore(CollapseUnderscores(
       Led([i \in 1..Len(name) |-> IF name[i] \in AllowedChars THEN name[i] ELSE "_"]))))

\* f"mcp_{safe_server_name}_{safe_tool_name}"
full_tool_name(server_name, tool_name) ==
  <<"m", "c", "p", "_">> \o _sanitize_tool_name(server_name) \o <<"_">> \o _sanitize_tool_name(tool_name)

\* the (server, tool) pairs in the order get_all_tools walks them
RECURSIVE ToolPairs(_)
ToolPairs(servers) ==
  IF servers = <<>> THEN <<>>
  ELSE [k \in 1..Len(Head(servers).tools) |-> <<Head(servers).name, Head(servers).tools[k]>>]
       \o ToolPairs(Tail(servers))

\* MCPClient.get_all_tools: the advertised names, and the mapping rebuilt
\* from scratch, a later pair overwriting an earlier one with the same name.
\* The mapping is kept as a sequence of [key, value] with distinct keys.
get_all_tools(servers) ==
  LET pairs == ToolPairs(servers)
      names == [k \in 1..Len(pairs) |-> full_tool_name(pairs[k][1], pairs[k][2])]
      last(k) == \A j \in (k + 1)..Len(pairs) : names[j] # names[k]
      keep == SelectSeq([k \in 1..Len(pairs) |-> k], last)
  IN [advertised |-> names,
      _tool_name_map |-> [i \in 1..Len(keep) |-> [key |-> names[keep[i]], value |-> pairs[keep[i]]]]]

\* str.split("_", 2) of a name that starts with "mcp_": parts[1] and parts[2]
split_mcp(full) ==
  LET rest == From(full, 5)
      cut == Find(rest, <<"_">>, 1)
  IN IF cut = 0 THEN <<>> ELSE <<Slice(rest, 1, cut - 1), From(rest, cut + 1)>>

\* MCPClient.parse_tool_name; <<>> stands for (None, None)
parse_tool_name(tool_name_map, full) ==
  IF \E i \in 1..Len(tool_name_map) : tool_name_map[i].key = full
  THEN tool_name_map[CHOOSE i \in 1..Len(tool_name_map) : tool_name_map[i].key = full].value
  ELSE IF StartsWith(full, <<"m", "c", "p", "_">>) THEN split_mcp(full)
  ELSE <<>>

\* names of servers and of tools tried; "U+5929" and "U+5730" stand for
\* two non-ASCII characters
ServerNames ==
  {<<"a">>, <<"a", "_", "b">>, <<"U+5929">>, <<"U+5730">>}

ToolNames ==
  {<<"c">>, <<"b", "_", "c">>, <<"U+5929">>}

\* most servers registered, most tools per server
MaxServers ==
  2

MaxTools ==
  2

\* sequences without repetition of 1..n elements of S
DistinctSeqs(S, n) ==
  UNION {{q \in [1..k -> S] : \A i \in 1..k, j \in 1..k : i # j => q[i] # q[j]} : k \in 1..n}

\* the variables the tool-name registry leaves alone
toolnames_rest ==
  <<chat, stream_resp, ai_manager, provider_db, workers, mcp_io, gateway_call, convs>>

\* get_all_tools() when the tool list of a turn is built
GetAllTools ==
  /\ ~ mcp_client.built
  /\ mcp_client' = [mcp_client EXCEPT
                      !.advertised = get_all_tools(mcp_client.servers).advertised,
                      !._tool_name_map = get_all_tools(mcp_client.servers)._tool_name_map,
                      !.built = TRUE]
  /\ UNCHANGED toolnames_rest

\* _execute_tool for the k-th advertised tool: the name is parsed and the
\* call goes to the pair that comes out
Dispatch ==
  /\ mcp_client.built
  /\ mcp_client.dispatched = <<>>
  /\ \E k \in 1..Len(mcp_client.advertised) :
       mcp_client' = [mcp_client EXCEPT
                        !.dispatched = <<[asked |-> ToolPairs(mcp_client.servers)[k],
                                          name |-> mcp_client.advertised[k],
                                          reached |-> parse_tool_name(mcp_client._tool_name_map,
                                                                      mcp_client.advertised[k])]>>]
  /\ UNCHANGED toolnames_rest

ToolNamesInit ==
  /\ ChatInit
  /\ RespIdle
  /\ ProvidersIdle
  /\ McpIoIdle
  /\ ConvsIdle
  /\ CallIdle
  /\ \E names \in DistinctSeqs(ServerNames, MaxServers) :
       \E tools \in [1..Len(names) -> DistinctSeqs(ToolNames, MaxTools)] :
          mcp_client = [servers |-> [i \in 1..Len(names) |-> [name |-> names[i], tools |-> tools[i]]],
                        _tool_name_map |-> <<>>, advertised |-> <<>>, built |-> FALSE,
                        dispatched |-> <<>>]

ToolNamesNext ==
  \/ GetAllTools
  \/ Dispatch

ToolNamesSpec ==
  ToolNamesInit /\ [][ToolNamesNext]_vars

\* C16: once get_all_tools has built the mapping, the advertised name of
\* every (server, tool) pair, non-ASCII names included, parses back to
\* exactly that pair, so every dispatch reaches the server and tool the
\* name was advertised for.
C16_ToolNameRoundTrip ==
  mcp_client.built =>
    /\ \A k \in 1..Len(mcp_client.advertised) :
          parse_tool_name(mcp_client._tool_name_map, mcp_client.advertised[k])
            = ToolPairs(mcp_client.servers)[k]
    /\ \A i \in 1..Len(mcp_client.dispatched) :
          mcp_client.dispatched[i].reached = mcp_client.dispatched[i].asked

\* the advertised names are pairwise different
NoNameCollision ==
  \A i \in 1..Len(mcp_client.advertised), j \in 1..Len(mcp_client.advertised) :
     i # j => mcp_client.advertised[i] # mcp_client.advertised[j]

\* what the code keeps: the round trip is exact whenever no two pairs share
\* a sanitised composite name, also for non-ASCII names
C16_RoundTripWithoutCollision ==
  (mcp_client.built /\ NoNameCollision) =>
    /\ \A k \in 1..Len(mcp_client.advertised) :
          parse_tool_name(mcp_client._tool_name_map, mcp_client.advertised[k])
            = ToolPairs(mcp_client.servers)[k]
    /\ \A i \in 1..Len(mcp_client.dispatched) :
          mcp_client.dispatched[i].reached = mcp_client.dispatched[i].asked


(***************************************************************************)
(* Provider configuration of the single AIManager (main.py:75) by the     *)
(* chat turns that run in request threads.                                *)
(***************************************************************************)
\* most provider swaps (vision step, search_knowledge) in one turn
MaxSwaps ==
  1

\* the row of the providers table with this id: its api_base and api_key
\* are named by the id, its default model and models_config are fixed
ProviderRow(id) ==
  [id |-> id, api_base |-> id, api_key |-> id,
   default_model |-> IF id = 1 THEN "m1" ELSE "m2",
   models_config |-> IF id = 1 THEN {"m1"} ELSE {"m2", "text-embedding"}]

\* crud.get_provider as the turn uses it: 0 for a row that is not there
crud_get_provider(id) ==
  IF \E i \in 1..Len(provider_db.all_providers) : provider_db.all_providers[i] = id THEN id ELSE 0

\* AIManager.set_provider: _provider is replaced by a new ProviderConfig
set_provider(api_base, api_key, default_model) ==
  [_provider |-> ProviderConfig(api_base, api_key, default_model)]

\* ai_manager after thread t ran the request code that leaves it as after,
\* with the thread noted when that code called set_provider
SetBy(t, before, after, called) ==
  [_provider |-> after._provider, set_by |-> IF called THEN t ELSE before.set_by]

\* the configuration _configure_ai_provider_for_conversation sets for the
\* provider it resolved
configured_provider(resolved, conversation_model) ==
  IF resolved.source = "provider"
  THEN ProviderConfig(ProviderRow(resolved.id).api_base, ProviderRow(resolved.id).api_key,
                      IF conversation_model # "" THEN conversation_model
                      ELSE ProviderRow(resolved.id).default_model)
  ELSE ProviderConfig(0, 0, conversation_model)

\* the variable 'provider' as the loop over all_providers leaves it: the
\* first row whose models_config lists current_model, else the last row;
\* 0 stands for the name never having been bound (no rows)
loop_provider(all_providers, model, conversation_model) ==
  LET current_model == IF model # "" THEN model
                       ELSE IF conversation_model # "" THEN conversation_model ELSE "AI_MODEL"
      hits == {i \in 1..Len(all_providers) : current_model \in ProviderRow(all_providers[i]).models_config}
  IN IF all_providers = <<>> THEN 0
     ELSE IF hits = {} THEN all_providers[Len(all_providers)]
     ELSE all_providers[CHOOSE i \in hits : \A j \in hits : i <= j]

\* search_knowledge: the first provider with an embedding model in its
\* models_config, else the first provider; 0 when there is none
embedding_provider(all_providers) ==
  LET hits == {i \in 1..Len(all_providers) : "text-embedding" \in ProviderRow(all_providers[i]).models_config}
  IN IF all_providers = <<>> THEN 0
     ELSE IF hits = {} THEN all_providers[1]
     ELSE all_providers[CHOOSE i \in hits : \A j \in hits : i <= j]

\* the variables the provider model leaves alone
providers_rest ==
  <<chat, stream_resp, mcp_client, provider_db, mcp_io, gateway_call, convs>>

\* chat_with_conversation: the provider is resolved and set on ai_manager
Configure(t) ==
  /\ workers[t].present
  /\ workers[t].pc = "idle"
  /\ LET resolved == _configure_ai_provider_for_conversation(
                        workers[t].override_provider_id, workers[t].conversation_provider_id,
                        provider_db.all_providers, provider_db.settings_api_base)
     IN IF resolved.status = "HTTP400"
        THEN /\ workers' = [workers EXCEPT ![t] = [@ EXCEPT !.pc = "closed", !.resolved = resolved]]
             /\ UNCHANGED ai_manager
        ELSE /\ ai_manager' = SetBy(t, ai_manager,
                                      [_provider |-> configured_provider(resolved, workers[t].conversation_model)],
                                      TRUE)
             /\ workers' = [workers EXCEPT ![t] = [@ EXCEPT !.pc = "configured",
                               !.resolved = resolved,
                               !.config = configured_provider(resolved, workers[t].conversation_model)]]
  /\ UNCHANGED providers_rest

\* what the vision step leaves on ai_manager before it calls the vision
\* model
vision_provider(mgr, w) ==
  IF w.vision_provider_id # 0 /\ crud_get_provider(w.vision_provider_id) # 0
  THEN set_provider(ProviderRow(w.vision_provider_id).api_base,
                    ProviderRow(w.vision_provider_id).api_key, "vision-model")
  ELSE mgr

\* the vision step begins: ai_manager is switched to the vision provider
\* when the default vision model names one that exists
VisionSwap(t) ==
  /\ workers[t].pc = "configured"
  /\ workers[t].step = 0
  /\ workers[t].vision_provider_id # 0
  /\ ai_manager' = SetBy(t, ai_manager, vision_provider(ai_manager, workers[t]),
                         crud_get_provider(workers[t].vision_provider_id) # 0)
  /\ workers' = [workers EXCEPT ![t] = [@ EXCEPT !.pc = "vision"]]
  /\ UNCHANGED providers_rest

\* the provider the vision step puts back: the loop variable 'provider'
\* with default_model=model; "raise" when the name was never bound
vision_restore(mgr, w, all_providers) ==
  IF w.vision_provider_id = 0 THEN [raised |-> FALSE, ai_manager |-> mgr]
  ELSE IF loop_provider(all_providers, w.model, w.conversation_model) = 0
  THEN [raised |-> TRUE, ai_manager |-> mgr]
  ELSE [raised |-> FALSE,
        ai_manager |-> set_provider(
           ProviderRow(loop_provider(all_providers, w.model, w.conversation_model)).api_base,
           ProviderRow(loop_provider(all_providers, w.model, w.conversation_model)).api_key,
           w.model)]

\* the vision step ends
VisionRestore(t) ==
  /\ workers[t].pc = "vision_done"
  /\ ai_manager' = SetBy(t, ai_manager,
                         vision_restore(ai_manager, workers[t], provider_db.all_providers).ai_manager,
                         /\ workers[t].vision_provider_id # 0
                         /\ ~ vision_restore(ai_manager, workers[t], provider_db.all_providers).raised)
  /\ workers' = [workers EXCEPT ![t] = [@ EXCEPT
                   !.pc = IF vision_restore(ai_manager, workers[t], provider_db.all_providers).raised
                          THEN "closed" ELSE "ready",
                   !.swaps = @ + 1]]
  /\ UNCHANGED providers_rest

\* the provider search_knowledge leaves on ai_manager when it returns
search_knowledge_provider(mgr, all_providers) ==
  IF embedding_provider(all_providers) = 0 THEN mgr
  ELSE set_provider(ProviderRow(embedding_provider(all_providers)).api_base,
                    ProviderRow(embedding_provider(all_providers)).api_key,
                    ProviderRow(embedding_provider(all_providers)).default_model)

\* _execute_tool('search_knowledge') up to the embedding call
SearchKnowledge(t) ==
  /\ workers[t].pc = "answered"
  /\ workers[t].use_tools
  /\ workers[t].swaps < MaxSwaps
  /\ embedding_provider(provider_db.all_providers) # 0
  /\ ai_manager' = SetBy(t, ai_manager, search_knowledge_provider(ai_manager, provider_db.all_providers), TRUE)
  /\ workers' = [workers EXCEPT ![t] = [@ EXCEPT !.pc = "embedding"]]
  /\ UNCHANGED providers_rest

\* the call a thread is about to make at this point of its turn, and where
\* the turn stands when the call has been sent
CallKind(at) ==
  IF at = "vision" THEN "vision" ELSE IF at = "embedding" THEN "embedding" ELSE "chat"

AfterCall(at) ==
  IF at = "vision" THEN "vision_done" ELSE IF at = "embedding" THEN "tool_done" ELSE "answered"

\* AIManager.chat builds the payload: model or self._provider.default_model
\* (the vision and embedding calls name their model)
chat_payload_model(mgr, w) ==
  IF CallKind(w.pc) = "vision" THEN "vision-model"
  ELSE IF CallKind(w.pc) = "embedding" THEN "text-embedding"
  ELSE IF w.model # "" THEN w.model ELSE mgr._provider.default_model

\* _post with the URL taken from the turn's own configuration
_post_url_of_turn(mgr, w) ==
  w.config.api_base

\* _post: url = f"{self._provider.api_base}/..."
_post_url(mgr, w) ==
  mgr._provider.api_base

\* _headers: Bearer self._provider.api_key
_headers(mgr, w) ==
  mgr._provider.api_key

BeginCall(t) ==
  /\ workers[t].pc \in {"configured", "ready", "vision", "embedding", "tool_done"}
  /\ workers[t].step = 0
  /\ workers' = [workers EXCEPT ![t] = [@ EXCEPT !.step = 1,
                   !.payload_model = chat_payload_model(ai_manager, workers[t])]]
  /\ UNCHANGED <<ai_manager, providers_rest>>

PostUrl(t) ==
  /\ workers[t].step = 1
  /\ workers' = [workers EXCEPT ![t] = [@ EXCEPT !.step = 2, !.url = _post_url(ai_manager, workers[t]),
                                                   !.url_set_by = ai_manager.set_by]]
  /\ UNCHANGED <<ai_manager, providers_rest>>

\* the request goes out; what ai_manager._provider held at the reads is
\* noted beside what was sent
PostSend(t) ==
  /\ workers[t].step = 2
  /\ workers' = [workers EXCEPT ![t] = [@ EXCEPT !.step = 0, !.payload_model = "", !.url = 0, !.url_set_by = 0,
                   !.pc = AfterCall(@),
                   !.swaps = IF CallKind(workers[t].pc) = "embedding" THEN @ + 1 ELSE @,
                   !.posts = Append(@, [kind |-> CallKind(workers[t].pc),
                                        model |-> workers[t].payload_model,
                                        api_base |-> workers[t].url,
                                        api_key |-> _headers(ai_manager, workers[t]),
                                        url_set_by |-> workers[t].url_set_by,
                                        key_set_by |-> ai_manager.set_by,
                                        after_swaps |-> workers[t].swaps])]]
  /\ UNCHANGED <<ai_manager, providers_rest>>

\* the turn ends with the answer
Finish(t) ==
  /\ workers[t].pc = "answered"
  /\ workers' = [workers EXCEPT ![t] = [@ EXCEPT !.pc = "closed"]]
  /\ UNCHANGED <<ai_manager, providers_rest>>

\* a request with these parameters, not yet served
TurnRequest(override_provider_id, conversation_provider_id, model, conversation_model, vision_provider_id, use_tools) ==
  [IdleWorker EXCEPT !.present = TRUE, !.override_provider_id = override_provider_id,
                     !.conversation_provider_id = conversation_provider_id, !.model = model,
                     !.conversation_model = conversation_model,
                     !.vision_provider_id = vision_provider_id, !.use_tools = use_tools]

\* the requests tried for a turn that runs alone, and the requests without
\* images and tools tried for two turns that run at the same time
TurnRequests ==
  {TurnRequest(o, c, m, cm, v, u) : o \in {0, 1, 7}, c \in {0, 2}, m \in {"", "m1"}, cm \in {"", "m2"}, v \in {0, 2}, u \in BOOLEAN}

PlainRequests ==
  {TurnRequest(o, c, "", "", 0, FALSE) : o \in {0, 1, 7}, c \in {0, 2}}

ProvidersInit ==
  /\ ChatInit
  /\ RespIdle
  /\ McpIdle
  /\ McpIoIdle
  /\ ConvsIdle
  /\ CallIdle
  /\ ai_manager = [_provider |-> ProviderConfig(0, 0, ""), set_by |-> 0]
  /\ provider_db \in [all_providers : {<<>>, <<1, 2>>}, settings_api_base : BOOLEAN]
  /\ \/ \E r \in TurnRequests : workers = [t \in Threads |-> IF t = 1 THEN r ELSE IdleWorker]
     \/ \E r \in [Threads -> PlainRequests] : workers = r

ProvidersNext ==
  \E t \in Threads :
    \/ Configure(t)
    \/ VisionSwap(t)
    \/ VisionRestore(t)
    \/ SearchKnowledge(t)
    \/ BeginCall(t)
    \/ PostUrl(t)
    \/ PostSend(t)
    \/ Finish(t)

ProvidersSpec ==
  ProvidersInit /\ [][ProvidersNext]_vars


\* the provider the stated order picks: the per-request provider when it
\* exists, else the conversation-bound one when it exists, else the first
\* configured one, else the global default (source "env"), else none
PriorityChoice(w) ==
  IF w.override_provider_id # 0 /\ crud_get_provider(w.override_provider_id) # 0
  THEN [status |-> "ok", source |-> "provider", id |-> w.override_provider_id]
  ELSE IF w.conversation_provider_id # 0 /\ crud_get_provider(w.conversation_provider_id) # 0
  THEN [status |-> "ok", source |-> "provider", id |-> w.conversation_provider_id]
  ELSE IF provider_db.all_providers # <<>>
  THEN [status |-> "ok", source |-> "provider", id |-> provider_db.all_providers[1]]
  ELSE IF provider_db.settings_api_base THEN [status |-> "ok", source |-> "env", id |-> 0]
  ELSE [status |-> "HTTP400", source |-> "none", id |-> 0]

\* C17: the provider resolved for a turn is the first available in the
\* order per-request provider, conversation-bound provider, first
\* configured provider, global default; in particular the conversation-bound
\* provider wins over the first configured one when the per-request
\* provider is not usable.
C17_ProviderPriority ==
  \A t \in Threads :
     workers[t].pc # "idle" => workers[t].resolved = PriorityChoice(workers[t])

\* what the code keeps: the order holds for every request whose per-request
\* provider is absent or exists
C17_PriorityWithoutDanglingOverride ==
  \A t \in Threads :
     (/\ workers[t].pc # "idle"
      /\ (workers[t].override_provider_id = 0 \/ crud_get_provider(workers[t].override_provider_id) # 0))
       => workers[t].resolved = PriorityChoice(workers[t])

\* a turn whose conversation-bound provider was chosen is there
C17_ConversationProviderChosen ==
  \E t \in Threads :
     /\ workers[t].pc # "idle"
     /\ workers[t].override_provider_id = 0
     /\ workers[t].resolved.id = 2
     /\ workers[t].conversation_provider_id = 2

\* the thread runs its turn alone
Alone(t) ==
  \A u \in Threads \ {t} : ~ workers[u].present

\* C18: when a step that routed a call through another provider (the
\* vision step, search_knowledge) has completed, ai_manager holds the
\* configuration resolved for the turn again, and every later chat call of
\* the turn goes out with it.
C18_SwapRestored ==
  \A t \in Threads :
     Alone(t) =>
       /\ (workers[t].swaps > 0 /\ workers[t].pc \in {"ready", "tool_done"})
            => ai_manager._provider = workers[t].config
       /\ \A i \in 1..Len(workers[t].posts) :
             (workers[t].posts[i].kind = "chat" /\ workers[t].posts[i].after_swaps > 0)
               => /\ workers[t].posts[i].api_base = workers[t].config.api_base
                  /\ workers[t].posts[i].api_key = workers[t].config.api_key

\* what the code keeps: up to the first swap of a turn that runs alone,
\* ai_manager holds the turn's configuration and chat calls go out with it
C18_ConfigHeldBeforeSwap ==
  \A t \in Threads :
     Alone(t) =>
       /\ (workers[t].swaps = 0 /\ workers[t].pc \in {"configured", "answered"})
            => ai_manager._provider = workers[t].config
       /\ \A i \in 1..Len(workers[t].posts) :
             (workers[t].posts[i].kind = "chat" /\ workers[t].posts[i].after_swaps = 0)
               => /\ workers[t].posts[i].api_base = workers[t].config.api_base
                  /\ workers[t].posts[i].api_key = workers[t].config.api_key


\* the thread's request has no vision step and no tools: Configure is its
\* only set_provider
PlainTurn(u) ==
  workers[u].present /\ workers[u].vision_provider_id = 0 /\ ~ workers[u].use_tools

\* C19: the turns share one provider configuration: a chat call of a turn
\* whose _post read ai_manager after another turn had set it goes out with
\* that other turn's api_base, and with that other turn's api_key when the
\* key was read after it, whatever the calling turn had resolved.
C19_CallUsesLastSetProvider ==
  \A t \in Threads, u \in Threads :
     (t # u /\ PlainTurn(u)) =>
        \A i \in 1..Len(workers[t].posts) :
           /\ workers[t].posts[i].url_set_by = u
                => workers[t].posts[i].api_base = workers[u].config.api_base
           /\ workers[t].posts[i].key_set_by = u
                => workers[t].posts[i].api_key = workers[u].config.api_key

\* two turns resolved to different providers, and a chat call of one went
\* out with the api_base, the api_key and the default model of the other
C19_CallWithOtherTurnsProvider ==
  \E t \in Threads, u \in Threads :
     /\ t # u
     /\ PlainTurn(t) /\ PlainTurn(u)
     /\ workers[t].resolved.status = "ok" /\ workers[u].resolved.status = "ok"
     /\ workers[t].config.api_base # workers[u].config.api_base
     /\ workers[t].config.default_model # workers[u].config.default_model
     /\ \E i \in 1..Len(workers[t].posts) :
           /\ workers[t].posts[i].kind = "chat"
           /\ workers[t].posts[i].api_base = workers[u].config.api_base
           /\ workers[t].posts[i].api_key = workers[u].config.api_key
           /\ workers[t].posts[i].model = workers[u].config.default_model


(***************************************************************************)
(* JSON-RPC exchanges with one MCP server over its stdin and stdout       *)
(* (mcp_client.py), made by concurrent call_tool and start_server         *)
(* invocations.  The asyncio.Lock is taken as exclusive.                  *)
(***************************************************************************)
\* the variables the MCP exchanges leave alone
mcp_io_rest ==
  <<chat, stream_resp, mcp_client, ai_manager, provider_db, workers, gateway_call, convs>>

\* the invocations whose request is written to the process and whose
\* response line is not read yet
InFlight(io, process) ==
  {d \in Callers : io.callers[d].pc = "read" /\ io.callers[d].sent_to = process}

\* a line written to server.process.stdin by c; the server answers a
\* request with a line on its stdout.  Who was in flight is noted beside it
WriteLine(io, c, kind, id) ==
  [io EXCEPT !.stdin = Append(@, [process |-> io.process, by |-> c, kind |-> kind, id |-> id,
                                  method |-> IF kind = "request" THEN io.callers[c].method
                                             ELSE "notifications/initialized",
                                  during |-> InFlight(io, io.process) \ {c}]),
             !.stdout[io.process] = IF kind = "request" THEN Append(@, id) ELSE @]

\* _send_request inside the lock: the id is taken and the request written
\* and flushed
write_request(io, c) ==
  [WriteLine(io, c, "request", io._request_id + 1) EXCEPT
     !._request_id = @ + 1,
     !.callers[c].pc = "read",
     !.callers[c].sent = io._request_id + 1,
     !.callers[c].sent_to = io.process]

\* _send_request up to its first suspension.  asyncio.Lock.acquire returns
\* without suspending when the lock is free and nobody waits for it, so a
\* coroutine then writes its request at once; otherwise, and in a thread
\* of its own, the invocation waits at 'async with lock'
_send_request(io, c, method) ==
  LET io1 == [io EXCEPT !.callers[c].method = method]
  IN IF /\ io.same_loop
        /\ io.lock = 0
        /\ \A d \in Callers \ {c} : io.callers[d].pc # "acquire"
     THEN write_request([io1 EXCEPT !.lock = c], c)
     ELSE [io1 EXCEPT !.callers[c].pc = "acquire"]

\* subprocess.Popen in start_server: a new process replaces server.process,
\* then _initialize_server sends initialize
Spawn(io, c) ==
  _send_request([io EXCEPT !.spawned = @ + 1, !.process = io.spawned + 1,
                           !.stdout = Append(@, <<>>)],
                c, "initialize")

\* _initialize_server after the initialize response: the initialized
\* notification is written without the lock, then _list_tools follows
write_notification(io, c) ==
  _send_request(WriteLine(io, c, "notification", 0), c, "tools/list")

\* a call_tool or start_server invocation begins
Invoke(c) ==
  /\ mcp_io.callers[c].pc = "idle"
  /\ \E op \in {"call_tool", "start_server"} :
       mcp_io' = [mcp_io EXCEPT !.callers[c].pc = "check", !.callers[c].op = op]
  /\ UNCHANGED mcp_io_rest

\* 'server.process and server.process.poll() is None' in start_server and
\* call_tool; coroutines of one loop reach Popen without yielding
CheckProcess(c) ==
  /\ mcp_io.callers[c].pc = "check"
  /\ mcp_io' = IF mcp_io.process # 0
               THEN IF mcp_io.callers[c].op = "start_server"
                    THEN [mcp_io EXCEPT !.callers[c].pc = "done"]
                    ELSE _send_request(mcp_io, c, "tools/call")
               ELSE IF mcp_io.same_loop THEN Spawn(mcp_io, c)
               ELSE [mcp_io EXCEPT !.callers[c].pc = "popen"]
  /\ UNCHANGED mcp_io_rest

\* Popen by a thread that found no running process
Popen(c) ==
  /\ mcp_io.callers[c].pc = "popen"
  /\ mcp_io' = Spawn(mcp_io, c)
  /\ UNCHANGED mcp_io_rest

\* async with lock
Acquire(c) ==
  /\ mcp_io.callers[c].pc = "acquire"
  /\ mcp_io.lock = 0
  /\ mcp_io' = [mcp_io EXCEPT !.lock = c, !.callers[c].pc = "write"]
  /\ UNCHANGED mcp_io_rest

\* _send_request: the id is taken and the request written and flushed
WriteRequest(c) ==
  /\ mcp_io.callers[c].pc = "write"
  /\ mcp_io' = write_request(mcp_io, c)
  /\ UNCHANGED mcp_io_rest

\* where an invocation goes when the response to its request is read.  An
\* error response makes _send_request raise: start_server catches it and
\* returns False, leaving server.process as it is, and call_tool returns an
\* error dict
after_response(io, c, error) ==
  IF error
  THEN [io EXCEPT !.callers[c].pc = "done", !.callers[c].error = TRUE]
  ELSE IF io.callers[c].method = "initialize"
  THEN LET io1 == [io EXCEPT !.initialized = @ \cup {io.callers[c].sent_to}]
       IN IF io.same_loop THEN write_notification(io1, c)
          ELSE [io1 EXCEPT !.callers[c].pc = "notify"]
  ELSE IF io.callers[c].method = "tools/list" /\ io.callers[c].op = "call_tool"
  THEN _send_request(io, c, "tools/call")
  ELSE [io EXCEPT !.callers[c].pc = "done"]

\* _send_request: readline returns the next line of the process's stdout,
\* a result or an error, and the lock is released; a coroutine that read
\* the initialize result writes the notification before its loop runs
\* anything else
ReadResponse(c) ==
  /\ mcp_io.callers[c].pc = "read"
  /\ mcp_io.stdout[mcp_io.callers[c].sent_to] # <<>>
  /\ \E error \in BOOLEAN :
     mcp_io' = after_response(
                 [mcp_io EXCEPT !.stdout[mcp_io.callers[c].sent_to] = Tail(@),
                                !.lock = 0,
                                !.callers[c].got = Append(@, [sent |-> mcp_io.callers[c].sent,
                                                               read |-> Head(mcp_io.stdout[mcp_io.callers[c].sent_to])])],
                 c, error)
  /\ UNCHANGED mcp_io_rest

\* _initialize_server in a thread of its own: the notification is written
\* some time after the lock was released
WriteNotification(c) ==
  /\ mcp_io.callers[c].pc = "notify"
  /\ mcp_io' = write_notification(mcp_io, c)
  /\ UNCHANGED mcp_io_rest

McpIoInit ==
  /\ ChatInit
  /\ RespIdle
  /\ McpIdle
  /\ ProvidersIdle
  /\ CallIdle
  /\ ConvsIdle
  /\ \E same_loop \in BOOLEAN : mcp_io = IoIdle(same_loop)

McpIoNext ==
  \E c \in Callers :
    \/ Invoke(c)
    \/ CheckProcess(c)
    \/ Popen(c)
    \/ Acquire(c)
    \/ WriteRequest(c)
    \/ ReadResponse(c)
    \/ WriteNotification(c)

McpIoSpec ==
  McpIoInit /\ [][McpIoNext]_vars

\* C20: at most one exchange with the server is in flight at a time:
\* between the write of a request and the read of its response no other
\* request or notification is written to the server, and the response is
\* read by the invocation that wrote the request, under every interleaving
\* of call_tool and start_server invocations.
C20_OneExchangeInFlight ==
  /\ \A i \in 1..Len(mcp_io.stdin) : mcp_io.stdin[i].during = {}
  /\ \A c \in Callers : \A i \in 1..Len(mcp_io.callers[c].got) :
        mcp_io.callers[c].got[i].read = mcp_io.callers[c].got[i].sent

\* what the code keeps: requests exclude one another and every response is
\* read by its requester
C20_RequestsExclusive ==
  /\ \A i \in 1..Len(mcp_io.stdin) :
        mcp_io.stdin[i].kind = "request" => mcp_io.stdin[i].during = {}
  /\ \A p \in 1..mcp_io.spawned : Cardinality(InFlight(mcp_io, p)) <= 1
  /\ \A c \in Callers : \A i \in 1..Len(mcp_io.callers[c].got) :
        mcp_io.callers[c].got[i].read = mcp_io.callers[c].got[i].sent

\* what the code keeps: coroutines of one event loop never write into
\* another's exchange
C20_ExclusiveWithinOneLoop ==
  mcp_io.same_loop => \A i \in 1..Len(mcp_io.stdin) : mcp_io.stdin[i].during = {}


(***************************************************************************)
(* Release of the upstream response by the gateway calls (ai_manager.py): *)
(* _post, the non-streaming branches, and the two stream generators.      *)
(***************************************************************************)
\* the variables a gateway call leaves alone
call_rest ==
  <<chat, stream_resp, mcp_client, ai_manager, provider_db, workers, mcp_io, convs>>

\* longest stream tried
MaxStreamLines ==
  3

\* what reading one more line of the stream does: "event" (a line that
\* yields), "skip" (blank or not JSON), "done" ([DONE]), "usage done"
\* ([DONE] in chat when usage was collected: the usage event is yielded
\* before the loop is left), "raise" (iter_lines raises)
StreamLines ==
  {"event", "skip", "done", "usage done", "raise"}

\* resp.close() skipped
resp_close_skipped(c) ==
  c

\* resp.close() in the finally clauses
resp_close(c) ==
  [c EXCEPT !.resp = "closed"]

\* _post: the client is made and the request sent; a failed send or a
\* non-2xx status closes the client and raises, else the open response is
\* returned
_post(c) ==
  IF c.outcome = "send fails" THEN [c EXCEPT !.client = "closed", !.pc = "raised"]
  ELSE IF c.outcome = "non-2xx" THEN [c EXCEPT !.resp = "open", !.client = "closed", !.pc = "raised"]
  ELSE [c EXCEPT !.resp = "open", !.client = "open", !.pc = "posted"]

\* the non-streaming branches of chat and run_with_tools: resp.json() and
\* the reading of its fields, finally: resp.close()
non_stream(c) ==
  resp_close([c EXCEPT !.pc = IF c.body_ok THEN "finished" ELSE "raised"])

\* one resumption of _iter up to its next yield or its end
RECURSIVE iter_resume(_)
iter_resume(c) ==
  IF c.at_done \/ c.pos = Len(c.lines) THEN resp_close([c EXCEPT !.pc = "finished"])
  ELSE LET n == c.pos + 1
       IN IF c.lines[n] = "event" THEN [c EXCEPT !.pos = n, !.pc = "suspended"]
          ELSE IF c.lines[n] = "usage done" /\ c.kind = "chat stream"
          THEN [c EXCEPT !.pos = n, !.pc = "suspended", !.at_done = TRUE]
          ELSE IF c.lines[n] = "usage done" THEN resp_close([c EXCEPT !.pos = n, !.pc = "finished"])
          ELSE IF c.lines[n] = "skip" THEN iter_resume([c EXCEPT !.pos = n])
          ELSE IF c.lines[n] = "done" THEN resp_close([c EXCEPT !.pos = n, !.pc = "finished"])
          ELSE resp_close([c EXCEPT !.pos = n, !.pc = "raised"])

\* the generator is closed while suspended at a yield: GeneratorExit runs
\* the finally clause
iter_close(c) ==
  resp_close([c EXCEPT !.pc = "finished", !.abandoned = TRUE])

\* self._post("chat/completions", ...)
Post ==
  /\ gateway_call.pc = "call"
  /\ gateway_call' = _post(gateway_call)
  /\ UNCHANGED call_rest

\* stream=False: the body is decoded and the result returned
NonStreamReturn ==
  /\ gateway_call.pc = "posted"
  /\ gateway_call.kind \in {"chat", "run_with_tools"}
  /\ gateway_call' = non_stream(gateway_call)
  /\ UNCHANGED call_rest

\* the consumer's for statement asks the generator for its next event
IterNext ==
  /\ gateway_call.pc \in {"posted", "suspended"}
  /\ gateway_call.kind \in {"chat stream", "run_with_tools stream"}
  /\ gateway_call' = iter_resume(gateway_call)
  /\ UNCHANGED call_rest

\* the consumer leaves its for statement early (break, an exception, its
\* own generator being closed): the generator is dropped and closed
Abandon ==
  /\ gateway_call.pc = "suspended"
  /\ gateway_call' = iter_close(gateway_call)
  /\ UNCHANGED call_rest

ReleaseInit ==
  /\ ChatInit
  /\ RespIdle
  /\ McpIdle
  /\ ProvidersIdle
  /\ McpIoIdle
  /\ ConvsIdle
  /\ \E kind \in {"chat", "run_with_tools", "chat stream", "run_with_tools stream"}, outcome \in {"2xx", "non-2xx", "send fails"}, body_ok \in BOOLEAN, n \in 0..MaxStreamLines :
       \E lines \in [1..n -> StreamLines] :
          gateway_call = [kind |-> kind, outcome |-> outcome, body_ok |-> body_ok, lines |-> lines,
                          pos |-> 0, pc |-> "call", at_done |-> FALSE, resp |-> "none",
                          client |-> "none", abandoned |-> FALSE]

ReleaseNext ==
  \/ Post
  \/ NonStreamReturn
  \/ IterNext
  \/ Abandon

ReleaseSpec ==
  ReleaseInit /\ [][ReleaseNext]_vars

convs_rest ==
  <<chat, stream_resp, mcp_client, ai_manager, provider_db, workers, mcp_io, gateway_call>>

\* most rows ever created, and most messages counted in one conversation
MaxCreated ==
  4

MaxMessages ==
  2

\* crud.get_latest_conversation: the row with the greatest id; <<>> for None
get_latest_conversation(rows) ==
  IF rows = <<>> THEN <<>>
  ELSE <<rows[CHOOSE i \in 1..Len(rows) : \A j \in 1..Len(rows) : rows[j].id <= rows[i].id]>>

\* crud.get_conversation_message_count
get_conversation_message_count(rows, id) ==
  LET hit == SelectSeq(rows, LAMBDA r : r.id = id)
  IN IF hit = <<>> THEN 0 ELSE hit[1].messages

\* crud.create_conversation: the new row gets the id after the greatest one
crud_create_conversation(c) ==
  LET latest == get_latest_conversation(c.rows)
      id == IF latest = <<>> THEN 1 ELSE latest[1].id + 1
  IN [c EXCEPT !.rows = Append(@, [id |-> id, messages |-> 0, stamp |-> c.created + 1]),
               !.created = @ + 1,
               !.last = [op |-> "create", id |-> id, reused |-> FALSE, before |-> c.rows]]

\* POST /conversations that never looks for an empty conversation
create_conversation_always(c) ==
  crud_create_conversation(c)

\* POST /conversations: the latest conversation is returned when it has no
\* message, else a conversation is created
create_conversation(c) ==
  LET latest == get_latest_conversation(c.rows)
  IN IF latest # <<>> /\ get_conversation_message_count(c.rows, latest[1].id) = 0
     THEN [c EXCEPT !.last = [op |-> "create", id |-> latest[1].id, reused |-> TRUE, before |-> c.rows]]
     ELSE crud_create_conversation(c)

\* crud.delete_conversation: the row goes, and its messages with it
delete_conversation(c, id) ==
  [c EXCEPT !.rows = SelectSeq(@, LAMBDA r : r.id # id),
            !.last = [op |-> "delete", id |-> id, reused |-> FALSE, before |-> c.rows]]

\* a chat request on the conversation: 404 when it is not there, else the
\* user message is written and, when the turn gets that far, the answer
chat_messages(c, id, answered) ==
  [c EXCEPT !.rows = [i \in 1..Len(@) |->
                        IF @[i].id = id
                        THEN [@[i] EXCEPT !.messages = @ + (IF answered THEN 2 ELSE 1)]
                        ELSE @[i]],
            !.last = [op |-> "chat", id |-> id, reused |-> FALSE, before |-> c.rows]]

CreateConversation ==
  /\ convs.created < MaxCreated
  /\ convs' = create_conversation(convs)
  /\ UNCHANGED convs_rest

ChatRequest ==
  /\ \E id \in 1..MaxCreated, answered \in BOOLEAN :
       /\ get_conversation_message_count(convs.rows, id) + (IF answered THEN 2 ELSE 1) <= MaxMessages
       /\ convs' = chat_messages(convs, id, answered)
  /\ UNCHANGED convs_rest

DeleteConversation ==
  /\ \E id \in 1..MaxCreated : convs' = delete_conversation(convs, id)
  /\ UNCHANGED convs_rest

ConvsInit ==
  /\ ChatInit
  /\ RespIdle
  /\ McpIdle
  /\ ProvidersIdle
  /\ McpIoIdle
  /\ CallIdle
  /\ ConvsIdle

ConvsNext ==
  \/ CreateConversation
  \/ ChatRequest
  \/ DeleteConversation

ConvsSpec ==
  ConvsInit /\ [][ConvsNext]_vars

\* the rows without a message
EmptyRows(rows) ==
  {i \in 1..Len(rows) : rows[i].messages = 0}

\* C23: after any sequence of create, chat and delete requests from an
\* empty store, at most one conversation has no message and it is the most
\* recently created of the conversations there are; a create request made
\* while the most recent conversation was empty answered with that
\* conversation, reused = true, and created nothing.
C23_NoEmptyAccumulation ==
  /\ Cardinality(EmptyRows(convs.rows)) <= 1
  /\ \A i \in EmptyRows(convs.rows) : \A j \in 1..Len(convs.rows) :
        convs.rows[j].stamp <= convs.rows[i].stamp
  /\ (/\ convs.last.op = "create"
      /\ get_latest_conversation(convs.last.before) # <<>>
      /\ get_latest_conversation(convs.last.before)[1].messages = 0)
       => /\ convs.last.reused
          /\ convs.last.id = get_latest_conversation(convs.last.before)[1].id
          /\ convs.rows = convs.last.before

\* a create request was answered with the empty conversation made after an
\* earlier one had been used and another deleted
C23_Reused ==
  /\ convs.last.op = "create"
  /\ convs.last.reused
  /\ convs.created >= 2
  /\ Len(convs.rows) >= 2
  /\ \E i \in 1..Len(convs.rows) : convs.rows[i].messages > 0

(***************************************************************************)
(* The message list handed to the model by the tool loops.                *)
(***************************************************************************)
\* the assistant message at position i asks for tools
AsksTools(msgs, i) ==
  msgs[i].role = "assistant" /\ Get(msgs[i], "tool_calls", <<>>) # <<>>

\* every assistant message with tool_calls is followed by one tool message
\* per call, in the order of the calls, each keyed to its call id, and by
\* no further tool message
WellShaped(msgs) ==
  \A i \in 1..Len(msgs) :
    AsksTools(msgs, i) =>
      LET ids == msgs[i].tool_calls
          after == i + Len(ids)
      IN /\ after <= Len(msgs)
         /\ \A j \in 1..Len(ids) :
              msgs[i + j].role = "tool" /\ msgs[i + j].tool_call_id = ids[j]
         /\ after < Len(msgs) => msgs[after + 1].role # "tool"

\* a further model call of the turn can still be issued with the
\* accumulated message list
ModelCallDue ==
  /\ turn.use_tools
  /\ \/ pc = "native" /\ g.iteration < max_iterations
     \/ pc = "nonstream" /\ calls.native > 0
     \/ pc = "round" /\ g.final_response_iterations < max_final_iterations

\* C24: whenever a turn with tools is about to issue a model call, every
\* assistant message with tool_calls of the accumulated message list is
\* followed by exactly one tool message per call, in the order of the calls
\* and keyed to the call's id; the tools of a response ran one after another
\* in that order
C24_ToolCallProtocolShape ==
  pc \in {"native", "nonstream", "round", "streaming"} /\ turn.use_tools
    => /\ WellShaped(g.current_messages)
       /\ Len(executed) = Len(ToolResults(g.current_messages))

\* a response with two tool calls was answered in order before the next call
C24_TwoCallsAnswered ==
  /\ ModelCallDue
  /\ \E i \in 1..Len(g.current_messages) :
       /\ AsksTools(g.current_messages, i)
       /\ Len(g.current_messages[i].tool_calls) = 2
       /\ g.current_messages[i + 2].tool_call_id = "c2"

(***************************************************************************)
(* Tool calls whose arguments string is not valid JSON.                   *)
(***************************************************************************)
\* a response received in this turn carries a tool call whose arguments
\* string json.loads cannot parse
BadArgsReceived ==
  /\ turn.use_tools
  /\ \E k \in 1..calls.native :
       LET resp == Response(Nth(turn.plan.native, k))
       IN resp.ok /\ \E i \in 1..Len(resp.tool_calls) : ~ resp.tool_calls[i].json_ok

\* C25: when a native tool call of the model has an arguments string that
\* is not valid JSON, a textual result is recorded for that call as a tool
\* message and the turn goes on: no error frame is sent by a streaming turn
\* and a non-streaming turn does not answer 500
C25_ParsingFailureAbsorbed ==
  BadArgsReceived =>
    /\ FramesOf("error") = <<>>
    /\ http # 500
    /\ \E i \in 1..Len(g.current_messages) :
         g.current_messages[i].role = "tool" /\ g.current_messages[i].tool_call_id = "c1"

\* what the code does instead: the unparseable arguments end the turn at
\* once, a streaming turn with an error frame and [DONE], a non-streaming
\* turn with 500, and the last message of the list is the unanswered
\* assistant message
C25_BadArgumentsAbortTurn ==
  BadArgsReceived =>
    /\ pc = "closed"
    /\ g.current_messages[Len(g.current_messages)].role = "assistant"
    /\ IF turn.stream
       THEN /\ Len(FramesOf("error")) = 1
            /\ g.frames[Len(g.frames)].ev = "done"
       ELSE http = 500

(***************************************************************************)
(* The answer of a non-streaming turn with tools.                         *)
(***************************************************************************)
\* a non-streaming turn with tools has answered 200
NonStreamAnswered ==
  ~ turn.stream /\ turn.use_tools /\ pc = "closed" /\ http = 200

\* the text is the content of a response of this turn that asked for no tool
FromModel(text) ==
  \E k \in 1..calls.native :
    LET resp == Response(Nth(turn.plan.native, k))
    IN resp.ok /\ resp.tool_calls = <<>> /\ resp.content = text

\* the text is the content of a tool message of the turn
FromTool(text) ==
  \E i \in 1..Len(g.current_messages) :
    g.current_messages[i].role = "tool" /\ g.current_messages[i].content = text

\* C29: the content a non-streaming turn with tools returns and stores as
\* the assistant message is the content of a model response without tool
\* calls and never the text of a tool result, also when the cap of 5
\* iterations is reached while the model still asks for tools
C29_AnswerProvenance ==
  NonStreamAnswered =>
    /\ AssistantMessages # <<>>
    /\ LET body == AssistantMessages[Len(AssistantMessages)].content
       IN FromModel(body) /\ ~ FromTool(body)

\* the same for the turns that return before the cap: the model's last
\* response asked for no tool
C29_ProvenanceBelowCap ==
  (NonStreamAnswered /\ Response(Nth(turn.plan.native, calls.native)).tool_calls = <<>>) =>
    /\ AssistantMessages # <<>>
    /\ LET body == AssistantMessages[Len(AssistantMessages)].content
       IN FromModel(body) /\ ~ FromTool(body)

\* at the cap the stored body is the text of the last tool result
C29_ToolResultAtCap ==
  (NonStreamAnswered /\ Response(Nth(turn.plan.native, calls.native)).tool_calls # <<>>) =>
    /\ calls.native = nonstream_max_iterations
    /\ FromTool(AssistantMessages[Len(AssistantMessages)].content)

(***************************************************************************)
(* The MCP handshake.                                                      *)
(***************************************************************************)
\* the notifications/initialized line was written to the process before
\* line i of the stdin log
NotifiedBefore(process, i) ==
  \E j \in 1..(i - 1) :
    mcp_io.stdin[j].process = process /\ mcp_io.stdin[j].kind = "notification"

\* every tools/call request went to a process that had answered initialize
\* with a result and had been sent the initialized notification
HandshakeBeforeUse ==
  \A i \in 1..Len(mcp_io.stdin) :
    mcp_io.stdin[i].method = "tools/call" =>
      /\ mcp_io.stdin[i].process \in mcp_io.initialized
      /\ NotifiedBefore(mcp_io.stdin[i].process, i)

\* C30: a tools/call request is written only to a subprocess whose
\* initialize request succeeded and which was sent the initialized
\* notification, also after a start_server attempt that failed in the
\* handshake and left the process running; and the invocations that find
\* the server stopped spawn at most one subprocess
C30_HandshakeBeforeUse ==
  /\ HandshakeBeforeUse
  /\ mcp_io.spawned <= 1

\* no response read so far was an error
NoErrorRead ==
  \A c \in Callers : ~ mcp_io.callers[c].error

\* what the code keeps: coroutines of one event loop spawn one subprocess,
\* and while no response is an error every tools/call follows the handshake
C30_OneLoopWithoutErrors ==
  mcp_io.same_loop =>
    /\ mcp_io.spawned <= 1
    /\ NoErrorRead => HandshakeBeforeUse

\* the first failing: within one event loop, a tools/call is written to the
\* process whose initialize was answered with an error
C30_NoCallAfterFailedHandshake ==
  mcp_io.same_loop => HandshakeBeforeUse

\* the second failing: two threads that find the server stopped each spawn
\* a subprocess
C30_OneSubprocess ==
  mcp_io.spawned <= 1

RECURSIVE ContentOf(_)
ContentOf(script) ==
  IF script = <<>> THEN <<>>
  ELSE (IF Head(script).type = "content" THEN Head(script).content ELSE <<>>)
       \o ContentOf(Tail(script))

\* the position after the first closing function_calls tag of s, 0 for none
FcCloseAfter(s) ==
  LET fc == <<"f", "u", "n", "c", "t", "i", "o", "n", "_", "c", "a", "l", "l", "s">>
      hits == {i \in 1..Len(s) : CloseTagEnds(s, i, fc) # {}}
  IN IF hits = {} THEN 0 ELSE SetMin(CloseTagEnds(s, SetMin(hits), fc))

\* the characters of s outside its complete function_calls blocks
RECURSIVE Outside(_)
Outside(s) ==
  LET a == FcOpenStart(s)
      e == IF a = 0 THEN 0 ELSE FcCloseAfter(From(s, a))
  IN IF e = 0 THEN s
     ELSE Slice(s, 1, a - 1) \o Outside(From(From(s, a), e))

\* the invocations of the complete function_calls blocks of s, in order
RECURSIVE InBlocks(_)
InBlocks(s) ==
  LET a == FcOpenStart(s)
      e == IF a = 0 THEN 0 ELSE FcCloseAfter(From(s, a))
  IN IF e = 0 THEN <<>>
     ELSE ParseInvokes(Slice(From(s, a), 1, e - 1)) \o InBlocks(From(From(s, a), e))

\* the content of the first n rounds of the turn
RoundContent(r) ==
  ContentOf(Script(Nth(turn.plan.rounds, r)))

RECURSIVE OutsideOfRounds(_)
OutsideOfRounds(n) ==
  IF n = 0 THEN <<>> ELSE OutsideOfRounds(n - 1) \o Outside(RoundContent(n))

RECURSIVE InBlocksOfRounds(_)
InBlocksOfRounds(n) ==
  IF n = 0 THEN <<>> ELSE InBlocksOfRounds(n - 1) \o InBlocks(RoundContent(n))

\* a streaming turn with tools whose native loop ran no tool, whose streams
\* carry content and usage only and do not break, between two rounds or
\* after the last
ContentRoundsDone ==
  /\ ToolStream
  /\ turn.plan.native = <<"none">>
  /\ \A r \in 1..Len(turn.plan.rounds) :
       \A i \in 1..Len(Script(turn.plan.rounds[r])) :
         Script(turn.plan.rounds[r])[i].type \in {"content", "usage"}
  /\ pc \in {"round", "finalize", "persist", "closed"}

\* C27: of the content received in the rounds of a streaming turn, every
\* character outside the complete function_calls blocks was sent to the
\* client as visible text (text after a closing tag and whitespace before
\* an opening tag included), and the invocations of every complete block
\* were executed
C27_ContentConserved ==
  ContentRoundsDone =>
    /\ ClientText(g.frames) = OutsideOfRounds(g.final_response_iterations)
    /\ executed = InBlocksOfRounds(g.final_response_iterations)

\* one function_calls block is all a round carries, or the round carries
\* no complete block
BlockAlone(s) ==
  Outside(s) = <<>> \/ Outside(s) = s

\* what the code keeps: rounds that carry nothing but one block, or no
\* complete block, are conserved
C27_ConservedWhenBlockAlone ==
  (ContentRoundsDone /\ \A r \in 1..Len(turn.plan.rounds) :
                           /\ BlockAlone(RoundContent(r))
                           /\ Len(InBlocks(RoundContent(r))) <= 1) =>
    /\ ClientText(g.frames) = OutsideOfRounds(g.final_response_iterations)
    /\ executed = InBlocksOfRounds(g.final_response_iterations)

(***************************************************************************)
(* thinking_start and thinking_end frames.                                *)
(***************************************************************************)
\* the frames alternate thinking_start and thinking_end, open saying
\* whether a thinking_start is unmatched so far, and no [DONE] is sent
\* while one is
RECURSIVE Paired(_, _)
Paired(frames, open) ==
  IF frames = <<>> THEN TRUE
  ELSE IF Head(frames).ev = "thinking_start" THEN ~ open /\ Paired(Tail(frames), TRUE)
  ELSE IF Head(frames).ev = "thinking_end" THEN open /\ Paired(Tail(frames), FALSE)
  ELSE IF Head(frames).ev = "done" THEN ~ open /\ Paired(Tail(frames), FALSE)
  ELSE Paired(Tail(frames), open)

\* C28: in every streaming turn with tools the thinking_start and
\* thinking_end frames alternate: after a thinking_start comes exactly one
\* thinking_end before the next thinking_start and before [DONE], and no
\* thinking_end comes without an unmatched thinking_start, also in rounds
\* where a tool call is detected in the thinking channel
C28_ThinkingPaired ==
  ToolStream => Paired(g.frames, FALSE)

\* no stream of the turn carries an opening function_calls tag
NoToolCallInStreams ==
  \A r \in 1..Len(turn.plan.rounds) :
    \A i \in 1..Len(Script(turn.plan.rounds[r])) :
      Script(turn.plan.rounds[r])[i].type \in {"thinking", "content"}
        => FcOpenStart(Script(turn.plan.rounds[r])[i].content) = 0

\* the same for the turns whose upstream does not fail: violated by a round
\* whose thinking channel opens with a function_calls block
C28_PairedOnHealthyUpstream ==
  (ToolStream /\ HealthyUpstream) => Paired(g.frames, FALSE)

\* what the code keeps: with a healthy upstream and no function_calls tag
\* in any stream the frames are paired
C28_PairedWithoutToolCall ==
  (ToolStream /\ HealthyUpstream /\ NoToolCallInStreams) => Paired(g.frames, FALSE)

====
